---- MODULE Spec2Model ----
(***************************************************************************)
(* State-machine model of the factom-did library: the DIDBuilder, the      *)
(* frozen DID it builds, and the DIDUpdater, DIDDeactivator and            *)
(* DIDVersionUpgrader bound to a builder.                                  *)
(*                                                                         *)
(* Conventions.                                                            *)
(*  - A JavaScript array is a record [items, frozen]: Object.freeze marks  *)
(*    the array object itself, and an in-place operation (push, sort) on   *)
(*    a frozen array throws a TypeError.  filter() allocates a new array.  *)
(*  - An optional value (undefined or v) is the sequence <<>> or <<v>>.    *)
(*  - Key material is a natural number n: the public (verifying) key is n  *)
(*    and the private (signing) key that derives it is <<n>>.  A freshly   *)
(*    generated key pair is a number no live key uses.                     *)
(*  - SHA-256 is the injective symbolic hash <<"sha256", x>>.              *)
(***************************************************************************)
EXTENDS Integers, Sequences, FiniteSets, TLC

\* ------------------------------------------------------------------ bounds
\* Largest number of keys (management keys and DID keys together) the
\* explored builders hold at a time.
MaxKeys == 3
\* Largest number of services the explored builders hold at a time.
MaxServices == 2
\* Largest number of calls made on the builder and the objects it returns,
\* after the builder's construction.
MaxCalls == 4
\* Largest number of management keys given one after the other to the builder
\* that is filled until its creation entry exceeds the size limit.
MaxManyKeys == 35
\* The largest number of extIds of an entry whose size is calculated.
MaxExtIds == 3
\* Largest number of calls made on the updater of a DID that was stored before.
MaxUpdaterCalls == 5

\* --------------------------------------------------------------- constants
DID_METHOD_NAME == "did:factom"
ENTRY_SCHEMA_V100 == "1.0.0"
DID_METHOD_SPEC_V020 == "0.2.0"
ENTRY_SIZE_LIMIT == 10000

Mainnet == "mainnet"
Testnet == "testnet"
Unspecified == ""

EdDSA == "Ed25519VerificationKey"
ECDSA == "ECDSASecp256k1VerificationKey"
RSA == "RSAVerificationKey"
KeyType == {EdDSA, ECDSA, RSA}

PublicKey == "publicKey"
AuthenticationKey == "authenticationKey"
DIDKeyPurpose == {PublicKey, AuthenticationKey}

EntryTypeCreate == "DIDManagement"
EntryTypeUpdate == "DIDUpdate"
EntryTypeVersionUpgrade == "DIDMethodVersionUpgrade"
EntryTypeDeactivation == "DIDDeactivation"

\* ------------------------------------------------------------ error names
NoError == "none"
ErrTypeError == "TypeError: object is frozen"
ErrDuplicateAlias == "Duplicate alias detected."
ErrPriority == "Priority must be a non-negative integer."
ErrPriorityRequirement == "Priority requirement must be a non-negative integer."
ErrController == "Controller must be a valid DID Id."
ErrCreateNoMgmtKey == "The DID must have at least one management key."
ErrCreateNoPriorityZero == "At least one management key must have priority 0."
ErrUpdateNoMgmtKeys == "Cannot update DID without management keys."
ErrUpdateNoPriorityZero == "DIDUpdate entry would leave no management keys of priority zero."
ErrNoChanges == "The are no changes made to the DID."
ErrUpdateSizeLimit == "You have exceeded the entry size limit!"
ErrCreateSizeLimit == "You have exceeded the entry size limit! Please remove some of your keys or services."
ErrDeactivateNoMgmtKeys == "Cannot deactivate DID without a management key of priority 0."
ErrDeactivatePriority == "Deactivation of a DID requires the availability of a management key with priority 0."
ErrUpgradeNoMgmtKeys == "Cannot upgrade method spec version for DID without management keys."
ErrUpgradeVersion == "New version must be an upgrade on old version"
ErrPrivateKeyNotSet == "Private key is not set."
ErrRotateNoPrivateKey == "Private key must be set."

\* ------------------------------------------------------- sequence helpers
Range(s) == {s[i] : i \in 1..Len(s)}

\* Array.prototype.filter keeping the elements whose alias differs.
FilterOutAlias(items, alias) ==
    LET keep(e) == e.alias # alias IN SelectSeq(items, keep)

\* Array.prototype.find by alias: <<>> when absent, <<element>> otherwise.
FindByAlias(items, alias) ==
    LET hit(e) == e.alias = alias
        found == SelectSeq(items, hit)
    IN IF Len(found) = 0 THEN <<>> ELSE <<found[1]>>

\* ------------------------------------------------------------ identifiers
Sha256(x) == <<"sha256", x>>

calculateChainId(extIds) ==
    Sha256([i \in 1..Len(extIds) |-> Sha256(extIds[i])])

\* A DID id is method-name[:network]:chainId; the record keeps the segments.
MakeId(network, chainId) == [network |-> network, chainId |-> chainId]

\* The 32 random bytes of the builder that generates its own id, and the
\* nonce some earlier builder drew for the DID that is later rehydrated.
GeneratedNonce == "nonce-generated"
ExistingNonce == "nonce-existing"
ForeignNonce == "nonce-foreign"

\* An id supplied to DID.builder(didId, ...) and a controller that is another DID.
ExistingDidId ==
    MakeId(Mainnet, calculateChainId(<<EntryTypeCreate, ENTRY_SCHEMA_V100, ExistingNonce>>))
ForeignDidId ==
    MakeId(Mainnet, calculateChainId(<<EntryTypeCreate, ENTRY_SCHEMA_V100, ForeignNonce>>))

\* A controller string that fails the DID-id grammar (its network segment is unknown).
MalformedDidId == MakeId("badnet", calculateChainId(<<ForeignNonce>>))

isValidDIDId(didId) == didId.network \in {Unspecified, Mainnet, Testnet}

fullId(didId, alias) == <<didId, alias>>

\* ------------------------------------------------------------- validators
\* The decimal digits of a natural number, as characters.
RECURSIVE DecimalDigits(_)
DecimalDigits(n) ==
    IF n < 10 THEN <<ToString(n)>> ELSE Append(DecimalDigits(n \div 10), ToString(n % 10))

\* The alias `my-management-key-${i}` of the i-th key of a builder filled in a loop.
ManagementKeyAlias(i) == "my-management-key-" \o ToString(i)
ManyKeyAliases == {ManagementKeyAlias(i) : i \in 0..MaxManyKeys}

\* Aliases are written as their characters so that the pattern is computed.
AliasChars(alias) ==
    CASE alias \in ManyKeyAliases ->
           <<"m", "y", "-", "m", "a", "n", "a", "g", "e", "m", "e", "n", "t", "-", "k", "e", "y", "-">>
             \o DecimalDigits(CHOOSE i \in 0..MaxManyKeys : alias = ManagementKeyAlias(i))
      [] alias = "k1" -> <<"k", "1">>
      [] alias = "k2" -> <<"k", "2">>
      [] alias = "k3" -> <<"k", "3">>
      [] alias = "s1" -> <<"s", "1">>
      [] alias = "s2" -> <<"s", "2">>
      [] alias = "K_1" -> <<"K", "_", "1">>
      [] OTHER -> <<>>

AliasAlphabet ==
    {"a", "b", "c", "d", "e", "f", "g", "h", "i", "j", "k", "l", "m", "n", "o", "p", "q", "r",
     "s", "t", "u", "v", "w", "x", "y", "z", "0", "1", "2", "3", "4", "5", "6", "7", "8", "9", "-"}

\* validateAlias: ^[a-z0-9-]{1,32}$
validateAlias(alias) ==
    LET chars == AliasChars(alias)
    IN /\ Len(chars) >= 1
       /\ Len(chars) <= 32
       /\ \A i \in 1..Len(chars) : chars[i] \in AliasAlphabet

ErrAlias == "Alias must not be more than 32 characters long and must contain only lower-case letters, digits and hyphens."
ErrKeyType == "Type must be a valid signature type."

validateKeyType(keyType) == keyType \in KeyType

\* validatePriorityRequirement: undefined, or a non-negative integer.
validatePriorityRequirement(priorityRequirement) ==
    priorityRequirement = <<>> \/ priorityRequirement[1] >= 0

\* ------------------------------------------------------------------- keys
\* new Ed25519Key() / new ECDSASecp256k1Key() / new RSAKey() without arguments.
generateNewKeyPair(n) == [verifyingKey |-> n, signingKey |-> <<n>>]

\* A key object built from a public key only.
publicOnlyKey(n) == [verifyingKey |-> n, signingKey |-> <<>>]

\* The verifyingKey of an RSAKey constructed without a public key: undefined.
NoVerifyingKey == 0

\* The text forms of a key pair (the publicKey and privateKey getters), each
\* absent when the key object does not hold that half.
encodePublicKey(underlyingKey) ==
    IF underlyingKey.verifyingKey = NoVerifyingKey THEN <<>>
    ELSE <<<<"text", underlyingKey.verifyingKey>>>>
encodePrivateKey(underlyingKey) ==
    IF underlyingKey.signingKey = <<>> THEN <<>> ELSE <<<<"text", underlyingKey.signingKey[1]>>>>

\* Ed25519Key / ECDSASecp256k1Key._deriveSigningAndVerifyingKey: the public key
\* is derived from the private key when one is given, and a given public key
\* that differs from the derived one is refused.
ErrKeyMismatch == "The provided public key does not match the one derived from the provided private key."
ErrorOfDerive(publicKeyText, privateKeyText) ==
    IF privateKeyText # <<>> /\ publicKeyText # <<>>
         /\ publicKeyText[1][2] # privateKeyText[1][2]
    THEN ErrKeyMismatch ELSE NoError
deriveSigningAndVerifyingKey(publicKeyText, privateKeyText) ==
    IF privateKeyText # <<>>
    THEN [verifyingKey |-> privateKeyText[1][2], signingKey |-> <<privateKeyText[1][2]>>]
    ELSE [verifyingKey |-> publicKeyText[1][2], signingKey |-> <<>>]

\* new RSAKey(publicKey, privateKey): both halves are stored as they are given.
RSAKey(publicKeyText, privateKeyText) ==
    [verifyingKey |-> IF publicKeyText = <<>> THEN NoVerifyingKey ELSE publicKeyText[1][2],
     signingKey |-> IF privateKeyText = <<>> THEN <<>> ELSE <<privateKeyText[1][2]>>]

\* The underlying key the AbstractDIDKey constructor makes for a key type from
\* the optional key texts (a new pair from fresh material when both are
\* absent), and the error its construction throws.
UnderlyingKeyError(keyType, publicKeyText, privateKeyText) ==
    IF keyType = RSA THEN NoError ELSE ErrorOfDerive(publicKeyText, privateKeyText)
UnderlyingKey(keyType, publicKeyText, privateKeyText, fresh) ==
    IF publicKeyText = <<>> /\ privateKeyText = <<>> THEN generateNewKeyPair(fresh)
    ELSE IF keyType = RSA THEN RSAKey(publicKeyText, privateKeyText)
    ELSE deriveSigningAndVerifyingKey(publicKeyText, privateKeyText)

\* AbstractDIDKey._validateInputParams, in the order of the checks.
validateInputParams(alias, keyType, controller, priorityRequirement) ==
    IF ~validateAlias(alias) THEN ErrAlias
    ELSE IF ~validateKeyType(keyType) THEN ErrKeyType
    ELSE IF ~isValidDIDId(controller) THEN ErrController
    ELSE IF ~validatePriorityRequirement(priorityRequirement) THEN ErrPriorityRequirement
    ELSE NoError

\* The error new ManagementKey(...) throws, NoError when it constructs.
ManagementKeyError(alias, priority, keyType, controller, priorityRequirement) ==
    LET base == validateInputParams(alias, keyType, controller, priorityRequirement)
    IN IF base # NoError THEN base
       ELSE IF priority < 0 THEN ErrPriority
       ELSE NoError

ManagementKey(alias, priority, keyType, controller, priorityRequirement, underlyingKey) ==
    [alias |-> alias, keyType |-> keyType, controller |-> controller,
     priorityRequirement |-> priorityRequirement,
     underlyingKey |-> underlyingKey, priority |-> priority]

ErrPurposeShape == "Purpose must contain one or both of publicKey and authenticationKey without repeated values"
ErrPurposeValue == "Purpose must contain only valid DIDKeyPurpose values."

\* The constructor that checks no purpose.
DIDKeyErrorWithoutPurposeChecks(alias, purposes, keyType, controller, priorityRequirement) ==
    validateInputParams(alias, keyType, controller, priorityRequirement)
\* The error new DIDKey(...) throws, NoError when it constructs.
DIDKeyError(alias, purposes, keyType, controller, priorityRequirement) ==
    LET base == validateInputParams(alias, keyType, controller, priorityRequirement)
    IN IF base # NoError THEN base
       ELSE IF Cardinality(Range(purposes)) # Len(purposes) \/ Len(purposes) \notin {1, 2}
            THEN ErrPurposeShape
       ELSE IF \E i \in 1..Len(purposes) : purposes[i] \notin DIDKeyPurpose
            THEN ErrPurposeValue
       ELSE NoError

DIDKey(alias, purposes, keyType, controller, priorityRequirement, underlyingKey) ==
    [alias |-> alias, keyType |-> keyType, controller |-> controller,
     priorityRequirement |-> priorityRequirement,
     underlyingKey |-> underlyingKey, purpose |-> purposes]

ON_CHAIN_PUB_KEY_NAME(keyType) ==
    IF keyType = RSA THEN "publicKeyPem" ELSE "publicKeyBase58"

\* The JavaScript object {} and an object with an optional property.
EmptyObj == [n \in {} |-> 0]
OptField(name, opt) == IF opt = <<>> THEN EmptyObj ELSE [n \in {name} |-> opt[1]]

\* AbstractDIDKey.toEntryObj.
KeyToEntryObj(key, didId) ==
    [id |-> fullId(didId, key.alias), type |-> key.keyType, controller |-> key.controller]
      @@ [n \in {ON_CHAIN_PUB_KEY_NAME(key.keyType)} |-> key.underlyingKey.verifyingKey]
      @@ OptField("priorityRequirement", key.priorityRequirement)

ManagementKeyToEntryObj(key, didId) ==
    KeyToEntryObj(key, didId) @@ [priority |-> key.priority]

DIDKeyToEntryObj(key, didId) ==
    KeyToEntryObj(key, didId) @@ [purpose |-> key.purpose]

\* The missing private key reported with the error of rotate().
ErrorOfSignAsOfRotate(key) ==
    IF key.underlyingKey.signingKey = <<>> THEN ErrRotateNoPrivateKey ELSE NoError
\* AbstractDIDKey.sign / verify over the underlying key.
ErrorOfSign(key) == IF key.underlyingKey.signingKey = <<>> THEN ErrPrivateKeyNotSet ELSE NoError
sign(key, message) == [signer |-> key.underlyingKey.signingKey[1], message |-> message]
verify(key, message, signature) ==
    signature.signer = key.underlyingKey.verifyingKey /\ signature.message = message

\* RSAKey.verify throws when the key holds no public key; the keys of the two
\* curves always hold one.
ErrPublicKeyNotSet == "Public key is not set."
ErrorOfVerify(key) ==
    IF key.keyType = RSA /\ key.underlyingKey.verifyingKey = NoVerifyingKey
    THEN ErrPublicKeyNotSet ELSE NoError

\* toEntryObj(didId, version) of keys and services knows one entry schema
\* version, the default one.
ErrUnknownSchemaVersion(version) == "Unknown schema version: " \o version
ErrorOfToEntryObj(version) ==
    IF version = <<>> \/ version = <<ENTRY_SCHEMA_V100>> THEN NoError
    ELSE ErrUnknownSchemaVersion(version[1])

\* --------------------------------------------------------------- services
ErrEndpoint == "Endpoint must be a valid URL address starting with http:// or https://."
ErrServiceType == "Service type is required!"

\* An endpoint is [scheme, host]; validateServiceEndpoint accepts http and https.
validateServiceEndpoint(endpoint) == endpoint.scheme \in {"http", "https"} /\ endpoint.host # ""

ServiceError(alias, serviceType, endpoint, priorityRequirement) ==
    IF ~validateAlias(alias) THEN ErrAlias
    ELSE IF ~validateServiceEndpoint(endpoint) THEN ErrEndpoint
    ELSE IF ~validatePriorityRequirement(priorityRequirement) THEN ErrPriorityRequirement
    ELSE IF serviceType = "" THEN ErrServiceType
    ELSE NoError

Service(alias, serviceType, endpoint, priorityRequirement, customFields) ==
    [alias |-> alias, serviceType |-> serviceType, endpoint |-> endpoint,
     priorityRequirement |-> priorityRequirement, customFields |-> customFields]

\* Service.toEntryObj: the custom fields are merged over the fixed ones.
ServiceToEntryObj(service, didId) ==
    (IF service.customFields = <<>> THEN EmptyObj ELSE service.customFields[1])
      @@ OptField("priorityRequirement", service.priorityRequirement)
      @@ [id |-> fullId(didId, service.alias), type |-> service.serviceType,
          serviceEndpoint |-> service.endpoint]

\* ----------------------------------------------------------------- arrays
NewArray(items) == [items |-> items, frozen |-> FALSE]

\* The array returned as it is, not frozen.
ObjectFreezeSkipped(array) == array
\* Object.freeze(array): marks the array object and returns it.
ObjectFreeze(array) == [array EXCEPT !.frozen = TRUE]

\* Array.prototype.push and Array.prototype.sort write to the array in place
\* and throw a TypeError on a frozen one (V8 returns early from sort when the
\* array has fewer than two elements).
ErrorOfPush(array) == IF array.frozen THEN ErrTypeError ELSE NoError
ErrorOfSort(array) ==
    IF array.frozen /\ Len(array.items) >= 2 THEN ErrTypeError ELSE NoError
Push(array, e) == [array EXCEPT !.items = Append(@, e)]

\* sort((a, b) => a.priority - b.priority): a stable sort by ascending priority.
RECURSIVE InsertByPriority(_, _)
InsertByPriority(sorted, e) ==
    IF sorted = <<>> THEN <<e>>
    ELSE IF sorted[Len(sorted)].priority <= e.priority THEN Append(sorted, e)
    ELSE Append(InsertByPriority(SubSeq(sorted, 1, Len(sorted) - 1), e), sorted[Len(sorted)])

RECURSIVE SortByPriority(_)
SortByPriority(items) ==
    IF items = <<>> THEN <<>>
    ELSE InsertByPriority(SortByPriority(SubSeq(items, 1, Len(items) - 1)), items[Len(items)])

\* ------------------------------------------------------------------ state
VARIABLES
    id,                  \* DIDBuilder._id
    nonce,               \* DIDBuilder._nonce, <<>> when undefined
    network,             \* DIDBuilder._network
    specVersion,         \* DIDBuilder._specVersion
    managementKeys,      \* DIDBuilder.managementKeys (an array object)
    didKeys,             \* DIDBuilder.didKeys (an array object)
    services,            \* DIDBuilder.services (an array object)
    usedKeyAliases,      \* DIDBuilder._usedKeyAliases
    usedServiceAliases,  \* DIDBuilder._usedServiceAliases
    did,                 \* the DID last returned by build(), <<>> before
    aliased,             \* per collection: the builder's array is the DID's array object
    updater,             \* the DIDUpdater last returned by update(), <<>> before
    deactivator,         \* the DIDDeactivator last returned by deactivate()
    upgrader,            \* the DIDVersionUpgrader last returned by upgradeSpecVersion()
    result,              \* the last call: its name, arguments, thrown error and returned entry
    calls                \* the number of calls made since the builder's construction

builderVars == <<id, nonce, network, specVersion, managementKeys, didKeys, services,
                 usedKeyAliases, usedServiceAliases>>
vars == <<id, nonce, network, specVersion, managementKeys, didKeys, services,
          usedKeyAliases, usedServiceAliases, did, aliased, updater, deactivator,
          upgrader, result, calls>>

Result(op, error, alias, entry) ==
    [op |-> op, error |-> error, alias |-> alias, purpose |-> "", entry |-> entry]

\* ----------------------------------------------------- fresh key material
KeysOf(items) == {items[i].underlyingKey.verifyingKey : i \in 1..Len(items)}

LiveKeyMaterial ==
    KeysOf(managementKeys.items) \cup KeysOf(didKeys.items)
      \cup (IF did = <<>> THEN {}
            ELSE KeysOf(did[1].managementKeys.items) \cup KeysOf(did[1].didKeys.items))
      \cup (IF updater = <<>> THEN {}
            ELSE KeysOf(updater[1].originalManagementKeys) \cup KeysOf(updater[1].originalDIDKeys))
      \cup (IF deactivator = <<>> THEN {} ELSE {deactivator[1].signingKey.underlyingKey.verifyingKey})

\* The key pair a generator call returns: one that no object in use holds.
FreshKeyMaterial ==
    CHOOSE n \in 1..(Cardinality(LiveKeyMaterial) + 1) :
        /\ n \notin LiveKeyMaterial
        /\ \A m \in 1..(n - 1) : m \in LiveKeyMaterial

\* ----------------------------------------------------------------- inputs
KeyAliases == {"k1", "k2", "k3"}
\* The aliases passed to the calls that add a key.
NewKeyAliases == {"k1", "k3"}
ServiceAliases == {"s1", "s2"}
Priorities == {0, 1}

\* The optional arguments keyType, controller and priorityRequirement of
\* managementKey() and didKey().
KeyProfiles ==
    {[keyType |-> EdDSA, controller |-> <<>>, priorityRequirement |-> <<>>]}

PurposeInputs ==
    {<<AuthenticationKey>>, <<PublicKey, AuthenticationKey>>}

\* The purposes passed to revokeDIDKeyPurpose.
RevokePurposeInputs == {PublicKey, AuthenticationKey}

HttpsEndpoint == [scheme |-> "https", host |-> "gmail.com"]

\* Key and service objects a caller constructed beforehand and stored, to be
\* handed to DID.builder(didId, managementKeys, didKeys, services).
StoredSigner == ManagementKey("k1", 0, EdDSA, ExistingDidId, <<>>, generateNewKeyPair(1))
StoredWatcher == ManagementKey("k1", 0, EdDSA, ExistingDidId, <<1>>, publicOnlyKey(1))
StoredSecond == ManagementKey("k2", 1, ECDSA, ExistingDidId, <<0>>, generateNewKeyPair(2))
StoredDIDKey ==
    DIDKey("k2", <<PublicKey, AuthenticationKey>>, ECDSA, ForeignDidId, <<1>>, generateNewKeyPair(2))
StoredPublicDIDKey == DIDKey("k2", <<AuthenticationKey>>, EdDSA, ExistingDidId, <<>>, publicOnlyKey(2))
StoredClash == DIDKey("k1", <<AuthenticationKey>>, RSA, ExistingDidId, <<1>>, generateNewKeyPair(2))
StoredService == Service("s1", "EmailService", HttpsEndpoint, <<2>>, <<>>)

StoredLists ==
    {[managementKeys |-> <<StoredSigner>>, didKeys |-> <<StoredDIDKey>>, services |-> <<StoredService>>],
     [managementKeys |-> <<StoredWatcher>>, didKeys |-> <<StoredPublicDIDKey>>, services |-> <<>>],
     [managementKeys |-> <<StoredSecond, StoredSigner>>, didKeys |-> <<>>, services |-> <<>>],
     [managementKeys |-> <<StoredSecond>>, didKeys |-> <<>>, services |-> <<>>],
     [managementKeys |-> <<StoredSigner>>, didKeys |-> <<StoredClash>>, services |-> <<>>],
     [managementKeys |-> <<StoredSigner>>, didKeys |-> <<>>, services |-> <<StoredService, StoredService>>]}

\* ---------------------------------------------------------------- builder
\* The check left out: every alias passes.
checkAliasIsUniqueUnchecked(usedAliases, alias) == NoError
\* DIDBuilder._checkAliasIsUnique: the error it throws, NoError when the alias is new.
checkAliasIsUnique(usedAliases, alias) ==
    IF alias \in usedAliases THEN ErrDuplicateAlias ELSE NoError

\* The forEach loops of the constructor: the first error, and the aliases
\* registered when no error occurs.
RECURSIVE CheckAliases(_, _)
CheckAliases(usedAliases, items) ==
    IF items = <<>> THEN [error |-> NoError, used |-> usedAliases]
    ELSE IF checkAliasIsUnique(usedAliases, items[1].alias) # NoError
         THEN [error |-> checkAliasIsUnique(usedAliases, items[1].alias), used |-> usedAliases]
    ELSE CheckAliases(usedAliases \cup {items[1].alias}, Tail(items))

\* The chain id computed from the nonce alone.
generateDIDIdFromNonceAlone(newNonce) ==
    MakeId(Unspecified, calculateChainId(<<newNonce>>))
\* DIDBuilder._generateDIDId.
generateDIDId(newNonce) ==
    MakeId(Unspecified, calculateChainId(<<EntryTypeCreate, ENTRY_SCHEMA_V100, newNonce>>))

\* didId.split(':'): the two segments of the method name, the network segment
\* when the id has one, and the chain id.
IdParts(didId) ==
    <<"did", "factom">>
      \o (IF didId.network = Unspecified THEN <<>> ELSE <<didId.network>>)
      \o <<didId.chainId>>

\* The network read as always unspecified.
getNetworkFromIdUnspecified(didId) == Unspecified
\* DIDBuilder._getNetworkFromId: the third of four segments.
getNetworkFromId(didId) ==
    IF Len(IdParts(didId)) = 4 THEN IdParts(didId)[3] ELSE Unspecified

\* The chainId getter: the last segment of the id.
chainId(didId) == IdParts(didId)[Len(IdParts(didId))]

NoAliasing == [managementKeys |-> FALSE, didKeys |-> FALSE, services |-> FALSE]

\* The state in which a session starts, apart from the builder's own fields.
NothingBuiltYet(constructorError) ==
    /\ did = <<>>
    /\ aliased = NoAliasing
    /\ updater = <<>>
    /\ deactivator = <<>>
    /\ upgrader = <<>>
    /\ result = Result("builder", constructorError, "", <<>>)
    /\ calls = 0

\* The fields of the builder DID.builder() returns when called with no argument.
NewBuilder ==
    /\ id = generateDIDId(GeneratedNonce)
    /\ nonce = <<GeneratedNonce>>
    /\ network = getNetworkFromId(generateDIDId(GeneratedNonce))
    /\ specVersion = DID_METHOD_SPEC_V020
    /\ managementKeys = NewArray(<<>>)
    /\ didKeys = NewArray(<<>>)
    /\ services = NewArray(<<>>)
    /\ usedKeyAliases = {}
    /\ usedServiceAliases = {}

\* The error the DIDBuilder constructor throws on the lists it is given.
BuilderConstructorError(lists) ==
    IF CheckAliases({}, lists.managementKeys).error # NoError
    THEN CheckAliases({}, lists.managementKeys).error
    ELSE IF CheckAliases(CheckAliases({}, lists.managementKeys).used, lists.didKeys).error # NoError
    THEN CheckAliases(CheckAliases({}, lists.managementKeys).used, lists.didKeys).error
    ELSE CheckAliases({}, lists.services).error

\* DID.builder(didId, [...managementKeys], [...didKeys], [...services]) with a
\* valid id.  A duplicate alias makes the constructor throw: no builder is
\* created, and the session goes on with the builder of DID.builder().
builder(lists) ==
    IF BuilderConstructorError(lists) # NoError
    THEN NewBuilder /\ NothingBuiltYet(BuilderConstructorError(lists))
    ELSE /\ id = ExistingDidId
         /\ nonce = <<>>
         /\ network = getNetworkFromId(ExistingDidId)
         /\ specVersion = DID_METHOD_SPEC_V020
         /\ managementKeys = NewArray(lists.managementKeys)
         /\ didKeys = NewArray(lists.didKeys)
         /\ services = NewArray(lists.services)
         /\ usedKeyAliases = CheckAliases(CheckAliases({}, lists.managementKeys).used,
                                          lists.didKeys).used
         /\ usedServiceAliases = CheckAliases({}, lists.services).used
         /\ NothingBuiltYet(NoError)

\* The construction of the builder: DID.builder() or DID.builder(didId, ...).
Init ==
    \/ NewBuilder /\ NothingBuiltYet(NoError)
    \/ \E lists \in StoredLists : builder(lists)

\* The DID as it is after an in-place write to one of the builder's arrays:
\* the DID sees the write when its array is the same object.
DidAfterWrite(field, array) ==
    IF did # <<>> /\ aliased[field] THEN <<[did[1] EXCEPT ![field] = array]>> ELSE did

KeyCount == Len(managementKeys.items) + Len(didKeys.items)

\* DIDBuilder.mainnet / DIDBuilder.testnet.
SetNetwork(op, newNetwork) ==
    /\ network' = newNetwork
    /\ id' = MakeId(newNetwork, chainId(id))
    /\ result' = Result(op, NoError, "", <<>>)
    /\ UNCHANGED <<nonce, specVersion, managementKeys, didKeys, services, usedKeyAliases,
                   usedServiceAliases, did, aliased, updater, deactivator, upgrader>>

mainnet == SetNetwork("mainnet", Mainnet)
testnet == SetNetwork("testnet", Testnet)

\* DIDBuilder.managementKey(alias, priority, keyType, controller, priorityRequirement).
managementKey(alias, priority, profile) ==
    LET controller == IF profile.controller = <<>> THEN id ELSE profile.controller[1]
        invalid == ManagementKeyError(alias, priority, profile.keyType, controller,
                                      profile.priorityRequirement)
        key == ManagementKey(alias, priority, profile.keyType, controller,
                             profile.priorityRequirement, generateNewKeyPair(FreshKeyMaterial))
        duplicate == checkAliasIsUnique(usedKeyAliases, alias)
    IN /\ IF invalid # NoError \/ duplicate # NoError
          THEN /\ result' = Result("managementKey", IF invalid # NoError THEN invalid ELSE duplicate,
                                   alias, <<>>)
               /\ UNCHANGED <<builderVars, did>>
          ELSE /\ usedKeyAliases' = usedKeyAliases \cup {alias}
               /\ IF ErrorOfPush(managementKeys) # NoError
                  THEN /\ result' = Result("managementKey", ErrorOfPush(managementKeys), alias, <<>>)
                       /\ UNCHANGED <<managementKeys, did>>
                  ELSE /\ managementKeys' = Push(managementKeys, key)
                       /\ did' = DidAfterWrite("managementKeys", Push(managementKeys, key))
                       /\ result' = Result("managementKey", NoError, alias, <<>>)
               /\ UNCHANGED <<id, nonce, network, specVersion, didKeys, services, usedServiceAliases>>
       /\ UNCHANGED <<aliased, updater, deactivator, upgrader>>

\* DIDBuilder.didKey(alias, purpose, keyType, controller, priorityRequirement).
didKey(alias, purposes, profile) ==
    LET controller == IF profile.controller = <<>> THEN id ELSE profile.controller[1]
        invalid == DIDKeyError(alias, purposes, profile.keyType, controller,
                               profile.priorityRequirement)
        key == DIDKey(alias, purposes, profile.keyType, controller,
                      profile.priorityRequirement, generateNewKeyPair(FreshKeyMaterial))
        duplicate == checkAliasIsUnique(usedKeyAliases, alias)
    IN /\ invalid # NoError \/ duplicate # NoError \/ KeyCount < MaxKeys
       /\ IF invalid # NoError \/ duplicate # NoError
          THEN /\ result' = Result("didKey", IF invalid # NoError THEN invalid ELSE duplicate,
                                   alias, <<>>)
               /\ UNCHANGED <<builderVars, did>>
          ELSE /\ usedKeyAliases' = usedKeyAliases \cup {alias}
               /\ IF ErrorOfPush(didKeys) # NoError
                  THEN /\ result' = Result("didKey", ErrorOfPush(didKeys), alias, <<>>)
                       /\ UNCHANGED <<didKeys, did>>
                  ELSE /\ didKeys' = Push(didKeys, key)
                       /\ did' = DidAfterWrite("didKeys", Push(didKeys, key))
                       /\ result' = Result("didKey", NoError, alias, <<>>)
               /\ UNCHANGED <<id, nonce, network, specVersion, managementKeys, services,
                              usedServiceAliases>>
       /\ UNCHANGED <<aliased, updater, deactivator, upgrader>>

\* DIDBuilder.service(alias, serviceType, endpoint, priorityRequirement, customFields).
service(alias, serviceType, endpoint, priorityRequirement, customFields) ==
    LET invalid == ServiceError(alias, serviceType, endpoint, priorityRequirement)
        entity == Service(alias, serviceType, endpoint, priorityRequirement, customFields)
        duplicate == checkAliasIsUnique(usedServiceAliases, alias)
    IN /\ invalid # NoError \/ duplicate # NoError \/ Len(services.items) < MaxServices
       /\ IF invalid # NoError \/ duplicate # NoError
          THEN /\ result' = Result("service", IF invalid # NoError THEN invalid ELSE duplicate,
                                   alias, <<>>)
               /\ UNCHANGED <<builderVars, did>>
          ELSE /\ usedServiceAliases' = usedServiceAliases \cup {alias}
               /\ IF ErrorOfPush(services) # NoError
                  THEN /\ result' = Result("service", ErrorOfPush(services), alias, <<>>)
                       /\ UNCHANGED <<services, did>>
                  ELSE /\ services' = Push(services, entity)
                       /\ did' = DidAfterWrite("services", Push(services, entity))
                       /\ result' = Result("service", NoError, alias, <<>>)
               /\ UNCHANGED <<id, nonce, network, specVersion, managementKeys, didKeys,
                              usedKeyAliases>>
       /\ UNCHANGED <<aliased, updater, deactivator, upgrader>>

\* new DID(builder): copies the scalar fields and freezes the builder's arrays,
\* which become the DID's arrays.
DID(frozenManagementKeys, frozenDIDKeys, frozenServices) ==
    [id |-> id, nonce |-> nonce, network |-> network, specVersion |-> specVersion,
     managementKeys |-> frozenManagementKeys, didKeys |-> frozenDIDKeys,
     services |-> frozenServices]

\* DIDBuilder.build().
build ==
    /\ managementKeys' = ObjectFreeze(managementKeys)
    /\ didKeys' = ObjectFreeze(didKeys)
    /\ services' = ObjectFreeze(services)
    /\ did' = <<DID(ObjectFreeze(managementKeys), ObjectFreeze(didKeys), ObjectFreeze(services))>>
    /\ aliased' = [managementKeys |-> TRUE, didKeys |-> TRUE, services |-> TRUE]
    /\ result' = Result("build", NoError, "", <<>>)
    /\ UNCHANGED <<id, nonce, network, specVersion, usedKeyAliases, usedServiceAliases,
                   updater, deactivator, upgrader>>

\* ------------------------------------------------------------- entry size
\* Byte lengths of the UTF-8 strings the entries are made of.  Encoded key
\* material and signatures have the nominal length of their algorithm.
\* A version string and a service type as long as the largest entry.
LongVersion == "0.3.0-oversized"
LongServiceType == "OversizedServiceType"

StrLen(str) ==
    CASE str = EntryTypeCreate -> 13
      [] str = EntryTypeUpdate -> 9
      [] str = EntryTypeVersionUpgrade -> 23
      [] str = EntryTypeDeactivation -> 15
      [] str = ENTRY_SCHEMA_V100 -> 5
      [] str = EdDSA -> 22
      [] str = ECDSA -> 29
      [] str = RSA -> 18
      [] str = PublicKey -> 9
      [] str = AuthenticationKey -> 17
      [] str = "EmailService" -> 12
      [] str = "https" -> 5
      [] str = "http" -> 4
      [] str = "gmail.com" -> 9
      [] str = "0.1.0" -> 5
      [] str = "0.2.0" -> 5
      [] str = "0.2" -> 3
      [] str = "0.3.0" -> 5
      [] str = "0.2.1" -> 5
      [] str = "latest" -> 6
      [] str = LongVersion -> ENTRY_SIZE_LIMIT
      [] str = LongServiceType -> ENTRY_SIZE_LIMIT
      [] str = "id" -> 2
      [] str = "type" -> 4
      [] str = "controller" -> 10
      [] str = "publicKeyBase58" -> 15
      [] str = "publicKeyPem" -> 12
      [] str = "priorityRequirement" -> 19
      [] str = "priority" -> 8
      [] str = "purpose" -> 7
      [] str = "serviceEndpoint" -> 15
      [] str = "didMethodVersion" -> 16
      [] str = "managementKey" -> 13
      [] str = "didKey" -> 6
      [] str = "service" -> 7
      [] str = "add" -> 3
      [] str = "revoke" -> 6
      [] OTHER -> 0

NonceLength == 32
ChainIdLength == 64

\* did:factom:[network:]chainId
DidIdLength(didId) ==
    10 + 1 + (IF didId.network = Unspecified THEN 0 ELSE 7 + 1) + ChainIdLength

FullIdLength(keyId) == DidIdLength(keyId[1]) + 1 + Len(AliasChars(keyId[2]))

PublicKeyTextLength(name) == IF name = "publicKeyPem" THEN 460 ELSE 44

SignatureLength(keyType) ==
    IF keyType = EdDSA THEN 64 ELSE IF keyType = ECDSA THEN 71 ELSE 256

RECURSIVE SumSeq(_)
SumSeq(s) == IF s = <<>> THEN 0 ELSE s[1] + SumSeq(Tail(s))

\* Length of a JSON array or object given the lengths of its members.
JsonListLength(memberLengths) ==
    2 + SumSeq(memberLengths) + (IF Len(memberLengths) = 0 THEN 0 ELSE Len(memberLengths) - 1)

\* The length of the characters alone.
JsonStringLengthUnquoted(n) == n
\* The length of a JSON string of n characters that need no escape, with its quotes.
JsonStringLength(n) == n + 2

\* Length of the JSON text of one property value of an entry object.
JsonValueLength(name, value) ==
    CASE name = "id" -> JsonStringLength(FullIdLength(value))
      [] name = "type" -> JsonStringLength(StrLen(value))
      [] name = "controller" -> JsonStringLength(DidIdLength(value))
      [] name \in {"publicKeyBase58", "publicKeyPem"} -> JsonStringLength(PublicKeyTextLength(name))
      [] name \in {"priority", "priorityRequirement"} -> 1
      [] name = "purpose" ->
           JsonListLength([i \in 1..Len(value) |-> JsonStringLength(StrLen(value[i]))])
      [] name = "serviceEndpoint" ->
           JsonStringLength(StrLen(value.scheme) + 3 + StrLen(value.host))
      [] OTHER -> JsonStringLength(StrLen(value))

RECURSIVE JsonMembersLength(_, _)
JsonMembersLength(obj, names) ==
    IF names = {} THEN 0
    ELSE LET name == CHOOSE n \in names : TRUE
         IN JsonStringLength(StrLen(name)) + 1 + JsonValueLength(name, obj[name])
              + JsonMembersLength(obj, names \ {name})

\* JSON.stringify of an entry object (a key, a service or a revocation).
JsonEntryObjLength(obj) ==
    2 + JsonMembersLength(obj, DOMAIN obj) + (Cardinality(DOMAIN obj) - 1)

\* JSON.stringify of an object whose properties are lists of entry objects.
RECURSIVE JsonListsLength(_, _)
JsonListsLength(obj, names) ==
    IF names = {} THEN 0
    ELSE LET name == CHOOSE n \in names : TRUE
         IN JsonStringLength(StrLen(name)) + 1
              + JsonListLength([i \in 1..Len(obj[name]) |-> JsonEntryObjLength(obj[name][i])])
              + JsonListsLength(obj, names \ {name})

JsonSectionLength(obj) ==
    2 + JsonListsLength(obj, DOMAIN obj)
      + (IF DOMAIN obj = {} THEN 0 ELSE Cardinality(DOMAIN obj) - 1)

\* The size without the two length bytes that precede each extId.
calculateEntrySizeWithoutPrefixes(extIdLengths, contentLength) ==
    35 + contentLength + SumSeq(extIdLengths)
\* calculateEntrySize over the byte lengths of the extIds and of the content.
calculateEntrySize(extIdLengths, contentLength) ==
    35 + 2 * Len(extIdLengths) + contentLength + SumSeq(extIdLengths)

\* ---------------------------------------------------------------- the DID
\* The check left out: every list of keys passes.
HasPriorityZeroUnchecked(keys) == TRUE
\* managementKeys.some((k) => k.priority === 0)
HasPriorityZero(keys) == \E i \in 1..Len(keys) : keys[i].priority = 0

\* A property that is present only when its list is not empty.
OptList(name, list) == IF list = <<>> THEN EmptyObj ELSE [n \in {name} |-> list]

\* DID._buildDIDDocument.
buildDIDDocument(d) ==
    [didMethodVersion |-> d.specVersion,
     managementKey |-> [i \in 1..Len(d.managementKeys.items) |->
                          ManagementKeyToEntryObj(d.managementKeys.items[i], d.id)]]
      @@ OptList("didKey", [i \in 1..Len(d.didKeys.items) |->
                              DIDKeyToEntryObj(d.didKeys.items[i], d.id)])
      @@ OptList("service", [i \in 1..Len(d.services.items) |->
                               ServiceToEntryObj(d.services.items[i], d.id)])

DIDDocumentLength(doc) ==
    2 + (JsonStringLength(16) + 1 + JsonStringLength(StrLen(doc.didMethodVersion)))
      + 1 + JsonListsLength(doc, DOMAIN doc \ {"didMethodVersion"})
      + (Cardinality(DOMAIN doc) - 2)

ErrUndefinedNonce == "TypeError: Cannot read property 'byteLength' of undefined"

\* The error DID.exportEntryData throws, NoError when it returns the entry.
DIDExportError(d) ==
    IF Len(d.managementKeys.items) < 1 THEN ErrCreateNoMgmtKey
    ELSE IF ~HasPriorityZero(d.managementKeys.items) THEN ErrCreateNoPriorityZero
    ELSE IF d.nonce = <<>> THEN ErrUndefinedNonce
    ELSE IF calculateEntrySize(<<StrLen(EntryTypeCreate), StrLen(ENTRY_SCHEMA_V100), NonceLength>>,
                               DIDDocumentLength(buildDIDDocument(d))) > ENTRY_SIZE_LIMIT
         THEN ErrCreateSizeLimit
    ELSE NoError

DIDEntry(d) ==
    [extIds |-> <<EntryTypeCreate, ENTRY_SCHEMA_V100, d.nonce[1]>>,
     content |-> buildDIDDocument(d)]

\* DID.exportEntryData().
DIDExportEntryData ==
    /\ did # <<>>
    /\ result' = IF DIDExportError(did[1]) # NoError
                 THEN Result("DID.exportEntryData", DIDExportError(did[1]), "", <<>>)
                 ELSE Result("DID.exportEntryData", NoError, "", <<DIDEntry(did[1])>>)
    /\ UNCHANGED <<builderVars, did, aliased, updater, deactivator, upgrader>>

\* ------------------------------------------------------------ the updater
\* The check left out: an updater is created for every builder.
updateUnchecked ==
    /\ updater' = <<[originalManagementKeys |-> managementKeys.items,
                     originalDIDKeys |-> didKeys.items,
                     originalServices |-> services.items,
                     didKeyPurposesToRevoke |-> <<>>]>>
    /\ result' = Result("update", NoError, "", <<>>)
    /\ UNCHANGED <<builderVars, did, aliased, deactivator, upgrader>>
\* DIDBuilder.update().
update ==
    /\ IF Len(managementKeys.items) = 0
       THEN /\ result' = Result("update", ErrUpdateNoMgmtKeys, "", <<>>)
            /\ UNCHANGED updater
       ELSE /\ updater' = <<[originalManagementKeys |-> managementKeys.items,
                             originalDIDKeys |-> didKeys.items,
                             originalServices |-> services.items,
                             didKeyPurposesToRevoke |-> <<>>]>>
            /\ result' = Result("update", NoError, "", <<>>)
    /\ UNCHANGED <<builderVars, did, aliased, deactivator, upgrader>>


\* The revoked purpose itself.
remainingPurposeSame(revokedPurpose) == revokedPurpose
\* The purpose that remains of the two when one is revoked.
remainingPurpose(revokedPurpose) ==
    IF revokedPurpose = PublicKey THEN AuthenticationKey ELSE PublicKey

\* _didKeyPurposesToRevoke is an object keyed by alias; its keys are listed in
\* insertion order, so it is a sequence of [alias, purpose] with distinct aliases.
PendingPurpose(pending, alias) ==
    LET hit(p) == p.alias = alias
        found == SelectSeq(pending, hit)
    IN IF found = <<>> THEN <<>> ELSE <<found[1].purpose>>

SetPendingPurpose(pending, alias, purpose) ==
    IF PendingPurpose(pending, alias) = <<>>
    THEN Append(pending, [alias |-> alias, purpose |-> purpose])
    ELSE [i \in 1..Len(pending) |->
            IF pending[i].alias = alias THEN [alias |-> alias, purpose |-> purpose]
            ELSE pending[i]]

\* The didKeys getter of the updater: the builder's DID keys with the pending
\* purpose revocations applied.
UpdaterDidKeys(builderDidKeys, pending) ==
    [i \in 1..Len(builderDidKeys) |->
        LET key == builderDidKeys[i]
        IN IF PendingPurpose(pending, key.alias) # <<>>
           THEN DIDKey(key.alias,
                       <<remainingPurpose(PendingPurpose(pending, key.alias)[1])>>,
                       key.keyType, key.controller, key.priorityRequirement,
                       UnderlyingKey(key.keyType, encodePublicKey(key.underlyingKey),
                                     encodePrivateKey(key.underlyingKey), 0))
           ELSE key]

\* The three getters as seen by a caller holding the updater.
updaterManagementKeys == managementKeys.items
updaterDidKeys == UpdaterDidKeys(didKeys.items, updater[1].didKeyPurposesToRevoke)
updaterServices == services.items

\* addManagementKey, addDIDKey and addService pass their arguments to the builder.
addManagementKey(alias, priority, profile) ==
    updater # <<>> /\ managementKey(alias, priority, profile)

addDIDKey(alias, purposes, profile) ==
    updater # <<>> /\ didKey(alias, purposes, profile)

addService(alias, serviceType, endpoint, priorityRequirement, customFields) ==
    updater # <<>> /\ service(alias, serviceType, endpoint, priorityRequirement, customFields)

\* The revocation that also takes the alias out of the builder's used aliases.
revokeManagementKeyFreeingAlias(alias) ==
    /\ updater # <<>>
    /\ managementKeys' = NewArray(FilterOutAlias(managementKeys.items, alias))
    /\ usedKeyAliases' = usedKeyAliases \ {alias}
    /\ aliased' = [aliased EXCEPT !.managementKeys = FALSE]
    /\ result' = Result("revokeManagementKey", NoError, alias, <<>>)
    /\ UNCHANGED <<id, nonce, network, specVersion, didKeys, services,
                   usedServiceAliases, did, updater, deactivator, upgrader>>
\* DIDUpdater.revokeManagementKey(alias): the builder gets a new, filtered array.
revokeManagementKey(alias) ==
    /\ updater # <<>>
    /\ managementKeys' = NewArray(FilterOutAlias(managementKeys.items, alias))
    /\ aliased' = [aliased EXCEPT !.managementKeys = FALSE]
    /\ result' = Result("revokeManagementKey", NoError, alias, <<>>)
    /\ UNCHANGED <<id, nonce, network, specVersion, didKeys, services, usedKeyAliases,
                   usedServiceAliases, did, updater, deactivator, upgrader>>

\* The builder's DID keys after revokeDIDKey(alias).
RevokeDIDKeyEffect(alias) ==
    /\ didKeys' = NewArray(FilterOutAlias(didKeys.items, alias))
    /\ aliased' = [aliased EXCEPT !.didKeys = FALSE]

\* DIDUpdater.revokeDIDKey(alias).
revokeDIDKey(alias) ==
    /\ updater # <<>>
    /\ RevokeDIDKeyEffect(alias)
    /\ result' = Result("revokeDIDKey", NoError, alias, <<>>)
    /\ UNCHANGED <<id, nonce, network, specVersion, managementKeys, services, usedKeyAliases,
                   usedServiceAliases, did, updater, deactivator, upgrader>>

\* The purpose marked for revocation whether the key holds it or not.
RevokeDIDKeyPurposeBranchOfAnyPurpose(builderDidKeys, alias, purpose) ==
    LET found == FindByAlias(builderDidKeys, alias)
    IN IF purpose \notin {AuthenticationKey, PublicKey} THEN "nothing"
       ELSE IF found = <<>> THEN "nothing"
       ELSE IF Len(found[1].purpose) = 1 THEN "revokeKey"
       ELSE "pending"
\* What revokeDIDKeyPurpose(alias, purpose) does: "nothing" on its three early
\* returns, "revokeKey" when the builder's key has one purpose, "pending" otherwise.
RevokeDIDKeyPurposeBranch(builderDidKeys, alias, purpose) ==
    LET found == FindByAlias(builderDidKeys, alias)
    IN IF purpose \notin {AuthenticationKey, PublicKey} THEN "nothing"
       ELSE IF found = <<>> THEN "nothing"
       ELSE IF purpose \notin Range(found[1].purpose) THEN "nothing"
       ELSE IF Len(found[1].purpose) = 1 THEN "revokeKey"
       ELSE "pending"

\* DIDUpdater.revokeDIDKeyPurpose(alias, purpose).
revokeDIDKeyPurpose(alias, purpose) ==
    LET branch == RevokeDIDKeyPurposeBranch(didKeys.items, alias, purpose)
    IN /\ updater # <<>>
       /\ CASE branch = "nothing" -> UNCHANGED <<didKeys, aliased, updater>>
            [] branch = "revokeKey" -> RevokeDIDKeyEffect(alias) /\ UNCHANGED updater
            [] OTHER ->
                 /\ updater' = <<[updater[1] EXCEPT !.didKeyPurposesToRevoke =
                                    SetPendingPurpose(@, alias, purpose)]>>
                 /\ UNCHANGED <<didKeys, aliased>>
       /\ result' = [Result("revokeDIDKeyPurpose", NoError, alias, <<>>) EXCEPT !.purpose = purpose]
       /\ UNCHANGED <<id, nonce, network, specVersion, managementKeys, services, usedKeyAliases,
                      usedServiceAliases, did, deactivator, upgrader>>

\* The revocation that takes out a service of the snapshot only.
revokeServiceOfSnapshotOnly(alias) ==
    LET stays(e) == e.alias # alias \/ e \notin Range(updater[1].originalServices)
    IN /\ updater # <<>>
       /\ services' = NewArray(SelectSeq(services.items, stays))
       /\ aliased' = [aliased EXCEPT !.services = FALSE]
       /\ result' = Result("revokeService", NoError, alias, <<>>)
       /\ UNCHANGED <<id, nonce, network, specVersion, managementKeys, didKeys, usedKeyAliases,
                      usedServiceAliases, did, updater, deactivator, upgrader>>

\* DIDUpdater.revokeService(alias).
revokeService(alias) ==
    /\ updater # <<>>
    /\ services' = NewArray(FilterOutAlias(services.items, alias))
    /\ aliased' = [aliased EXCEPT !.services = FALSE]
    /\ result' = Result("revokeService", NoError, alias, <<>>)
    /\ UNCHANGED <<id, nonce, network, specVersion, managementKeys, didKeys, usedKeyAliases,
                   usedServiceAliases, did, updater, deactivator, upgrader>>

\* AbstractDIDKey.rotate on the clone: the error it throws, and the rotated clone.
ErrorOfRotate(key) ==
    IF key.underlyingKey.signingKey = <<>> THEN ErrRotateNoPrivateKey ELSE NoError
\* The clone left with the key pair it was copied with.
rotateKeepingTheKeyPair(key, newMaterial) == key
\* The clone with a newly generated key pair of its algorithm.
rotate(key, newMaterial) == [key EXCEPT !.underlyingKey = generateNewKeyPair(newMaterial)]

\* The array a rotate call leaves in the builder: the key is filtered out first,
\* and its rotated clone is pushed unless rotate() throws.
RotateIn(items, alias, newMaterial) ==
    LET found == FindByAlias(items, alias)
    IN IF ErrorOfRotate(found[1]) # NoError THEN FilterOutAlias(items, alias)
       ELSE Append(FilterOutAlias(items, alias), rotate(found[1], newMaterial))

\* The rotation made on the key object itself, which the snapshot holds too.
rotateManagementKeyInPlace(alias) ==
    LET found == FindByAlias(managementKeys.items, alias)
        rotated(items) ==
            [i \in 1..Len(items) |->
                IF items[i].alias = alias THEN rotate(items[i], FreshKeyMaterial) ELSE items[i]]
    IN /\ updater # <<>>
       /\ IF found = <<>> \/ ErrorOfRotate(found[1]) # NoError
          THEN /\ result' = Result("rotateManagementKey",
                                   IF found = <<>> THEN NoError ELSE ErrorOfRotate(found[1]),
                                   alias, <<>>)
               /\ UNCHANGED <<managementKeys, aliased, updater>>
          ELSE /\ managementKeys' = NewArray(rotated(managementKeys.items))
               /\ aliased' = [aliased EXCEPT !.managementKeys = FALSE]
               /\ updater' = <<[updater[1] EXCEPT !.originalManagementKeys = rotated(@)]>>
               /\ result' = Result("rotateManagementKey", NoError, alias, <<>>)
       /\ UNCHANGED <<id, nonce, network, specVersion, didKeys, services, usedKeyAliases,
                      usedServiceAliases, did, deactivator, upgrader>>
\* DIDUpdater.rotateManagementKey(alias).
rotateManagementKey(alias) ==
    LET found == FindByAlias(managementKeys.items, alias)
    IN /\ updater # <<>>
       /\ IF found = <<>>
          THEN /\ result' = Result("rotateManagementKey", NoError, alias, <<>>)
               /\ UNCHANGED <<managementKeys, aliased>>
          ELSE /\ managementKeys' = NewArray(RotateIn(managementKeys.items, alias, FreshKeyMaterial))
               /\ aliased' = [aliased EXCEPT !.managementKeys = FALSE]
               /\ result' = Result("rotateManagementKey", ErrorOfRotate(found[1]), alias, <<>>)
       /\ UNCHANGED <<id, nonce, network, specVersion, didKeys, services, usedKeyAliases,
                      usedServiceAliases, did, updater, deactivator, upgrader>>

\* DIDUpdater.rotateDIDKey(alias).
rotateDIDKey(alias) ==
    LET found == FindByAlias(didKeys.items, alias)
    IN /\ updater # <<>>
       /\ IF found = <<>>
          THEN /\ result' = Result("rotateDIDKey", NoError, alias, <<>>)
               /\ UNCHANGED <<didKeys, aliased>>
          ELSE /\ didKeys' = NewArray(RotateIn(didKeys.items, alias, FreshKeyMaterial))
               /\ aliased' = [aliased EXCEPT !.didKeys = FALSE]
               /\ result' = Result("rotateDIDKey", ErrorOfRotate(found[1]), alias, <<>>)
       /\ UNCHANGED <<id, nonce, network, specVersion, managementKeys, services, usedKeyAliases,
                      usedServiceAliases, did, updater, deactivator, upgrader>>

\* ------------------------------------------------------- the update entry
\* JSON.stringify of a key or service object: its own properties, those whose
\* value is undefined left out.
JSONstringify(e) ==
    [n \in (DOMAIN e) \ {"priorityRequirement", "customFields", "underlyingKey"} |-> e[n]]
      @@ OptField("priorityRequirement", e.priorityRequirement)
      @@ (IF "customFields" \in DOMAIN e THEN OptField("customFields", e.customFields)
          ELSE EmptyObj)
      @@ (IF "underlyingKey" \in DOMAIN e
          THEN [underlyingKey |-> [verifyingKey |-> e.underlyingKey.verifyingKey]
                                    @@ OptField("signingKey", e.underlyingKey.signingKey)]
          ELSE EmptyObj)

\* Entities compared by their alias alone.
IncludesAlias(items, obj) ==
    \E i \in 1..Len(items) : items[i].alias = obj.alias

\* originalStrArray.includes(JSON.stringify(obj))
IncludesStringified(items, obj) ==
    \E i \in 1..Len(items) : JSONstringify(items[i]) = JSONstringify(obj)

\* obj.toEntryObj(didId), dispatched on the class of the entity.
toEntryObj(obj, didId) ==
    IF "priority" \in DOMAIN obj THEN ManagementKeyToEntryObj(obj, didId)
    ELSE IF "purpose" \in DOMAIN obj THEN DIDKeyToEntryObj(obj, didId)
    ELSE ServiceToEntryObj(obj, didId)

\* DIDUpdater._getNew: the entry objects of the current entities that are not
\* in the original collection.
getNew(original, current) ==
    LET isNew(obj) == ~IncludesStringified(original, obj)
        fresh == SelectSeq(current, isNew)
    IN [i \in 1..Len(fresh) |-> toEntryObj(fresh[i], id)]

\* Only the original entities whose alias is no longer in the current collection.
getRevokedByAlias(original, current) ==
    LET isRevoked(obj) == FindByAlias(current, obj.alias) = <<>>
        gone == SelectSeq(original, isRevoked)
    IN [i \in 1..Len(gone) |-> [id |-> fullId(id, gone[i].alias)]]

\* DIDUpdater._getRevoked: {id} for the original entities that are not in the
\* current collection.
getRevoked(original, current) ==
    LET isRevoked(obj) == ~IncludesStringified(current, obj)
        gone == SelectSeq(original, isRevoked)
    IN [i \in 1..Len(gone) |-> [id |-> fullId(id, gone[i].alias)]]

\* DIDUpdater._constructAddObject / _constructRevokeObject.
constructAddObject(newManagementKeys, newDidKeys, newServices) ==
    OptList("managementKey", newManagementKeys)
      @@ OptList("didKey", newDidKeys)
      @@ OptList("service", newServices)

constructRevokeObject(revokedManagementKeys, revokedDidKeys, revokedServices) ==
    OptList("managementKey", revokedManagementKeys)
      @@ OptList("didKey", revokedDidKeys)
      @@ OptList("service", revokedServices)

\* The loop over the pending purpose revocations: each is pushed to
\* revoke.didKey, which is created when it does not exist yet.
RECURSIVE AddPurposeRevocations(_, _)
AddPurposeRevocations(revokeObject, pending) ==
    IF pending = <<>> THEN revokeObject
    ELSE LET item == [id |-> fullId(id, pending[1].alias), purpose |-> <<pending[1].purpose>>]
         IN AddPurposeRevocations(
                IF "didKey" \in DOMAIN revokeObject
                THEN [revokeObject EXCEPT !["didKey"] = Append(@, item)]
                ELSE revokeObject @@ [didKey |-> <<item>>],
                Tail(pending))

\* The property present whatever its object holds.
OptObjectAlways(name, obj) == [n \in {name} |-> obj]
\* A property that is present only when its object has properties.
OptObject(name, obj) == IF DOMAIN obj = {} THEN EmptyObj ELSE [n \in {name} |-> obj]

UpdateAddObject(u) ==
    constructAddObject(
        getNew(u.originalManagementKeys, managementKeys.items),
        getNew(u.originalDIDKeys, didKeys.items),
        getNew(u.originalServices, services.items))

UpdateRevokeObject(u) ==
    AddPurposeRevocations(
        constructRevokeObject(
            getRevoked(u.originalManagementKeys, managementKeys.items),
            getRevoked(u.originalDIDKeys, didKeys.items),
            getRevoked(u.originalServices, services.items)),
        u.didKeyPurposesToRevoke)

UpdateEntryContent(u) ==
    OptObject("add", UpdateAddObject(u)) @@ OptObject("revoke", UpdateRevokeObject(u))

\* The check left out: every content passes for a change.
HasNoChangesUnchecked(content) == FALSE
\* Object.keys(updateEntryContent).length === 0
HasNoChanges(content) == DOMAIN content = {}

\* The first of the current management keys sorted by priority.
UpdaterSigningKeyOfCurrent(originalManagementKeys, currentManagementKeys) ==
    SortByPriority(currentManagementKeys)[1]
\* The key that signs the update: the first of the snapshot sorted by priority.
UpdaterSigningKey(originalManagementKeys, currentManagementKeys) ==
    SortByPriority(originalManagementKeys)[1]

RECURSIVE JsonSectionsLength(_, _)
JsonSectionsLength(content, names) ==
    IF names = {} THEN 0
    ELSE LET name == CHOOSE n \in names : TRUE
         IN JsonStringLength(StrLen(name)) + 1 + JsonSectionLength(content[name])
              + JsonSectionsLength(content, names \ {name})

UpdateContentLength(content) ==
    2 + JsonSectionsLength(content, DOMAIN content)
      + (IF DOMAIN content = {} THEN 0 ELSE Cardinality(DOMAIN content) - 1)

\* The concatenation signed as it is, without the digest.
SignedExtIdsUndigested(entryType, signingKey, signedContent) ==
    <<entryType, ENTRY_SCHEMA_V100, fullId(id, signingKey.alias),
      sign(signingKey,
           <<entryType, ENTRY_SCHEMA_V100, fullId(id, signingKey.alias)>> \o signedContent)>>
\* The extIds of a signed entry: the signature is made over the SHA-256 digest
\* of the concatenation of type, schema, key id and, where the entry has one
\* (signedContent is <<content>>, <<>> for a deactivation), the content.
SignedExtIds(entryType, signingKey, signedContent) ==
    <<entryType, ENTRY_SCHEMA_V100, fullId(id, signingKey.alias),
      sign(signingKey,
           Sha256(<<entryType, ENTRY_SCHEMA_V100, fullId(id, signingKey.alias)>> \o signedContent))>>

SignedExtIdLengths(entryType, signingKey) ==
    <<StrLen(entryType), StrLen(ENTRY_SCHEMA_V100), FullIdLength(fullId(id, signingKey.alias)),
      SignatureLength(signingKey.keyType)>>

\* The errors of the export with the check of the signing key's priority
\* against the added management keys in force.
UpdaterExportErrorEnforcingPriority(u) ==
    LET content == UpdateEntryContent(u)
        signingKey == UpdaterSigningKey(u.originalManagementKeys, managementKeys.items)
        added == getNew(u.originalManagementKeys, managementKeys.items)
    IN IF ~HasPriorityZero(managementKeys.items) THEN ErrUpdateNoPriorityZero
       ELSE IF HasNoChanges(content) THEN ErrNoChanges
       ELSE IF \E i \in 1..Len(added) : added[i].priority < signingKey.priority
            THEN "The update requires a key with priority <= " \o ToString(signingKey.priority)
       ELSE IF ErrorOfSign(signingKey) # NoError THEN ErrorOfSign(signingKey)
       ELSE IF calculateEntrySize(SignedExtIdLengths(EntryTypeUpdate, signingKey),
                                  UpdateContentLength(content)) > ENTRY_SIZE_LIMIT
            THEN ErrUpdateSizeLimit
       ELSE NoError
\* The error DIDUpdater.exportEntryData throws, NoError when it returns the entry.
UpdaterExportError(u) ==
    LET content == UpdateEntryContent(u)
        signingKey == UpdaterSigningKey(u.originalManagementKeys, managementKeys.items)
    IN IF ~HasPriorityZero(managementKeys.items) THEN ErrUpdateNoPriorityZero
       ELSE IF HasNoChanges(content) THEN ErrNoChanges
       ELSE IF ErrorOfSign(signingKey) # NoError THEN ErrorOfSign(signingKey)
       ELSE IF calculateEntrySize(SignedExtIdLengths(EntryTypeUpdate, signingKey),
                                  UpdateContentLength(content)) > ENTRY_SIZE_LIMIT
            THEN ErrUpdateSizeLimit
       ELSE NoError

UpdateEntry(u) ==
    [extIds |-> SignedExtIds(EntryTypeUpdate,
                             UpdaterSigningKey(u.originalManagementKeys, managementKeys.items),
                             <<UpdateEntryContent(u)>>),
     content |-> UpdateEntryContent(u)]

\* DIDUpdater.exportEntryData().  The snapshot of the management keys is sorted
\* in place once the two first checks have passed.
UpdaterExportEntryData ==
    LET error == UpdaterExportError(updater[1])
    IN /\ updater # <<>>
       /\ updater' = IF error \in {ErrUpdateNoPriorityZero, ErrNoChanges} THEN updater
                     ELSE <<[updater[1] EXCEPT !.originalManagementKeys = SortByPriority(@)]>>
       /\ result' = IF error # NoError
                    THEN Result("DIDUpdater.exportEntryData", error, "", <<>>)
                    ELSE Result("DIDUpdater.exportEntryData", NoError, "", <<UpdateEntry(updater[1])>>)
       /\ UNCHANGED <<builderVars, did, aliased, deactivator, upgrader>>

\* -------------------------------------------------------- the deactivator
\* The check left out: every key passes.
DeactivatorConstructorUnchecked(signingKey) == NoError
\* The check of the DIDDeactivator constructor on the key it selected.
DeactivatorConstructorError(signingKey) ==
    IF signingKey.priority # 0 THEN ErrDeactivatePriority ELSE NoError

\* The constructor that takes its signing key out of the sorted array.
deactivateTakingTheKey ==
    LET sorted == [managementKeys EXCEPT !.items = SortByPriority(@)]
    IN /\ IF Len(managementKeys.items) = 0
          THEN /\ result' = Result("deactivate", ErrDeactivateNoMgmtKeys, "", <<>>)
               /\ UNCHANGED <<managementKeys, did, deactivator>>
          ELSE IF ErrorOfSort(managementKeys) # NoError
          THEN /\ result' = Result("deactivate", ErrorOfSort(managementKeys), "", <<>>)
               /\ UNCHANGED <<managementKeys, did, deactivator>>
          ELSE /\ managementKeys' = [sorted EXCEPT !.items = Tail(@)]
               /\ did' = DidAfterWrite("managementKeys", [sorted EXCEPT !.items = Tail(@)])
               /\ result' = Result("deactivate", DeactivatorConstructorError(sorted.items[1]), "", <<>>)
               /\ deactivator' = IF DeactivatorConstructorError(sorted.items[1]) # NoError
                                 THEN deactivator
                                 ELSE <<[signingKey |-> sorted.items[1]]>>
       /\ UNCHANGED <<id, nonce, network, specVersion, didKeys, services, usedKeyAliases,
                      usedServiceAliases, aliased, updater, upgrader>>
\* DIDBuilder.deactivate(): the constructor sorts the builder's management
\* keys in place and keeps the first one.
deactivate ==
    LET sorted == [managementKeys EXCEPT !.items = SortByPriority(@)]
    IN /\ IF Len(managementKeys.items) = 0
          THEN /\ result' = Result("deactivate", ErrDeactivateNoMgmtKeys, "", <<>>)
               /\ UNCHANGED <<managementKeys, did, deactivator>>
          ELSE IF ErrorOfSort(managementKeys) # NoError
          THEN /\ result' = Result("deactivate", ErrorOfSort(managementKeys), "", <<>>)
               /\ UNCHANGED <<managementKeys, did, deactivator>>
          ELSE /\ managementKeys' = sorted
               /\ did' = DidAfterWrite("managementKeys", sorted)
               /\ result' = Result("deactivate", DeactivatorConstructorError(sorted.items[1]), "", <<>>)
               /\ deactivator' = IF DeactivatorConstructorError(sorted.items[1]) # NoError
                                 THEN deactivator
                                 ELSE <<[signingKey |-> sorted.items[1]]>>
       /\ UNCHANGED <<id, nonce, network, specVersion, didKeys, services, usedKeyAliases,
                      usedServiceAliases, aliased, updater, upgrader>>

EmptyContent == ""

\* DIDDeactivator.exportEntryData().
DeactivatorExportEntryData ==
    LET signingKey == deactivator[1].signingKey
    IN /\ deactivator # <<>>
       /\ result' = IF ErrorOfSign(signingKey) # NoError
                    THEN Result("DIDDeactivator.exportEntryData", ErrorOfSign(signingKey), "", <<>>)
                    ELSE Result("DIDDeactivator.exportEntryData", NoError, "",
                                <<[extIds |-> SignedExtIds(EntryTypeDeactivation, signingKey, <<>>),
                                   content |-> EmptyContent]>>)
       /\ UNCHANGED <<builderVars, did, aliased, updater, deactivator, upgrader>>

\* ----------------------------------------------------------- the upgrader
\* parseFloat of a version string: the number read from the longest numeric
\* prefix, in tenths (<<n>>), so that "0.2.1" is read as 0.2; <<>> is NaN,
\* the result for a string that does not start with a number.
parseFloat(version) ==
    CASE version = "0.1.0" -> <<1>>
      [] version = "0.2.0" -> <<2>>
      [] version = "0.2" -> <<2>>
      [] version = "0.2.1" -> <<2>>
      [] version = "0.3.0" -> <<3>>
      [] version = LongVersion -> <<3>>
      [] OTHER -> <<>>

VersionInputs ==
    {<<>>, <<"0.1.0">>, <<"0.2">>, <<"0.2.1">>, <<"0.3.0">>, <<"latest">>, <<LongVersion>>}

\* The check of the DIDVersionUpgrader constructor; a comparison with NaN is
\* false.
UpgraderConstructorError(currentVersion, newSpecVersion) ==
    LET new == parseFloat(newSpecVersion[1])
        current == parseFloat(currentVersion)
    IN IF newSpecVersion = <<>> \/ (new # <<>> /\ current # <<>> /\ new[1] <= current[1])
       THEN ErrUpgradeVersion ELSE NoError

\* DIDBuilder.upgradeSpecVersion(newSpecVersion).
upgradeSpecVersion(newSpecVersion) ==
    LET error == IF Len(managementKeys.items) = 0 THEN ErrUpgradeNoMgmtKeys
                 ELSE UpgraderConstructorError(specVersion, newSpecVersion)
    IN /\ result' = Result("upgradeSpecVersion", error, "", <<>>)
       /\ upgrader' = IF error # NoError THEN upgrader
                      ELSE <<[newSpecVersion |-> newSpecVersion[1]]>>
       /\ UNCHANGED <<builderVars, did, aliased, updater, deactivator>>

ErrUndefinedSigningKey == "TypeError: Cannot read property 'fullId' of undefined"

\* The export that signs with the first key of the array as it stands, which it
\* does not sort.
UpgraderExportEntryDataUnsorted ==
    LET content == [didMethodVersion |-> upgrader[1].newSpecVersion]
        op == "DIDVersionUpgrader.exportEntryData"
    IN /\ upgrader # <<>>
       /\ result' =
            IF managementKeys.items = <<>> THEN Result(op, ErrUndefinedSigningKey, "", <<>>)
            ELSE IF ErrorOfSign(managementKeys.items[1]) # NoError
            THEN Result(op, ErrorOfSign(managementKeys.items[1]), "", <<>>)
            ELSE Result(op, NoError, "",
                        <<[extIds |-> SignedExtIds(EntryTypeVersionUpgrade, managementKeys.items[1],
                                                   <<content>>),
                           content |-> content]>>)
       /\ UNCHANGED <<builderVars, did, aliased, updater, deactivator, upgrader>>

\* DIDVersionUpgrader.exportEntryData(): sorts the builder's management keys
\* in place and signs with the first one.
UpgraderExportEntryData ==
    LET sorted == [managementKeys EXCEPT !.items = SortByPriority(@)]
        content == [didMethodVersion |-> upgrader[1].newSpecVersion]
        op == "DIDVersionUpgrader.exportEntryData"
    IN /\ upgrader # <<>>
       /\ IF ErrorOfSort(managementKeys) # NoError
          THEN /\ result' = Result(op, ErrorOfSort(managementKeys), "", <<>>)
               /\ UNCHANGED <<managementKeys, did>>
          ELSE /\ managementKeys' = sorted
               /\ did' = DidAfterWrite("managementKeys", sorted)
               /\ result' =
                    IF sorted.items = <<>> THEN Result(op, ErrUndefinedSigningKey, "", <<>>)
                    ELSE IF ErrorOfSign(sorted.items[1]) # NoError
                    THEN Result(op, ErrorOfSign(sorted.items[1]), "", <<>>)
                    ELSE Result(op, NoError, "",
                                <<[extIds |-> SignedExtIds(EntryTypeVersionUpgrade, sorted.items[1], <<content>>),
                                   content |-> content]>>)
       /\ UNCHANGED <<id, nonce, network, specVersion, didKeys, services, usedKeyAliases,
                      usedServiceAliases, aliased, updater, deactivator, upgrader>>

\* ---------------------------------------------------------- specification
\* The services added by calls: the oversized one under the alias s2 only.
ServiceProfiles ==
    {[alias |-> "s1", serviceType |-> "EmailService", endpoint |-> HttpsEndpoint,
      priorityRequirement |-> <<>>, customFields |-> <<>>],
     [alias |-> "s2", serviceType |-> "EmailService", endpoint |-> HttpsEndpoint,
      priorityRequirement |-> <<>>, customFields |-> <<>>],
     [alias |-> "s2", serviceType |-> LongServiceType, endpoint |-> HttpsEndpoint,
      priorityRequirement |-> <<>>, customFields |-> <<>>]}

\* One more call, within the number of calls explored.
Call ==
    /\ calls < MaxCalls
    /\ calls' = calls + 1

\* A call of managementKey within the number of keys explored: it adds no key,
\* or the builder holds fewer keys than that number.
WithinMaxKeys(alias, priority, profile) ==
    \/ KeyCount < MaxKeys
    \/ checkAliasIsUnique(usedKeyAliases, alias) # NoError
    \/ ManagementKeyError(alias, priority, profile.keyType,
                          IF profile.controller = <<>> THEN id ELSE profile.controller[1],
                          profile.priorityRequirement) # NoError

Next ==
    \/ Call /\ mainnet
    \/ Call /\ testnet
    \/ \E alias \in NewKeyAliases, priority \in Priorities, profile \in KeyProfiles :
          Call /\ WithinMaxKeys(alias, priority, profile) /\ managementKey(alias, priority, profile)
    \/ \E alias \in NewKeyAliases, purposes \in PurposeInputs, profile \in KeyProfiles :
          Call /\ didKey(alias, purposes, profile)
    \/ \E p \in ServiceProfiles :
          Call /\ service(p.alias, p.serviceType, p.endpoint, p.priorityRequirement, p.customFields)
    \/ Call /\ build
    \/ Call /\ DIDExportEntryData
    \/ Call /\ update
    \/ \E alias \in NewKeyAliases, priority \in Priorities, profile \in KeyProfiles :
          Call /\ WithinMaxKeys(alias, priority, profile) /\ addManagementKey(alias, priority, profile)
    \/ \E alias \in NewKeyAliases, purposes \in PurposeInputs, profile \in KeyProfiles :
          Call /\ addDIDKey(alias, purposes, profile)
    \/ \E p \in ServiceProfiles :
          Call /\ addService(p.alias, p.serviceType, p.endpoint, p.priorityRequirement, p.customFields)
    \/ \E alias \in KeyAliases : Call /\ revokeManagementKey(alias)
    \/ \E alias \in KeyAliases : Call /\ revokeDIDKey(alias)
    \/ \E alias \in KeyAliases, purpose \in RevokePurposeInputs : Call /\ revokeDIDKeyPurpose(alias, purpose)
    \/ \E alias \in ServiceAliases : Call /\ revokeService(alias)
    \/ \E alias \in KeyAliases : Call /\ rotateManagementKey(alias)
    \/ \E alias \in KeyAliases : Call /\ rotateDIDKey(alias)
    \/ Call /\ UpdaterExportEntryData
    \/ Call /\ deactivate
    \/ Call /\ DeactivatorExportEntryData
    \/ \E version \in VersionInputs : Call /\ upgradeSpecVersion(version)
    \/ Call /\ UpgraderExportEntryData

Spec == Init /\ [][Next]_vars

\* ------------------------------------------- a builder filled with many keys
\* The session of a builder made by DID.builder() that is given management
\* keys of priority 0 with the default key type and controller in a loop,
\*   for (i = 0; i < n; i++) builder.managementKey(`my-management-key-${i}`, 0),
\* on the unspecified network or after mainnet(), and is then built and exported.
DefaultKeyProfile == [keyType |-> EdDSA, controller |-> <<>>, priorityRequirement |-> <<>>]

ManyKeysInit == NewBuilder /\ NothingBuiltYet(NoError)

ManyKeysMainnet ==
    /\ managementKeys.items = <<>>
    /\ did = <<>>
    /\ mainnet
    /\ UNCHANGED calls

ManyKeysManagementKey ==
    /\ did = <<>>
    /\ Len(managementKeys.items) < MaxManyKeys
    /\ managementKey(ManagementKeyAlias(Len(managementKeys.items)), 0, DefaultKeyProfile)
    /\ UNCHANGED calls

ManyKeysBuild == did = <<>> /\ build /\ UNCHANGED calls

ManyKeysExport == DIDExportEntryData /\ UNCHANGED calls

ManyKeysNext ==
    \/ ManyKeysMainnet
    \/ ManyKeysManagementKey
    \/ ManyKeysBuild
    \/ ManyKeysExport

ManyKeysSpec == ManyKeysInit /\ [][ManyKeysNext]_vars

C2_AliasesDistinct ==
    LET keys == managementKeys.items \o didKeys.items
    IN /\ \A i, j \in 1..Len(keys) : i # j => keys[i].alias # keys[j].alias
       /\ \A i, j \in 1..Len(services.items) :
             i # j => services.items[i].alias # services.items[j].alias

C2_ConstructorRejectsDuplicates ==
    \A lists \in StoredLists :
        LET keys == lists.managementKeys \o lists.didKeys
        IN (\/ \E i, j \in 1..Len(keys) : i # j /\ keys[i].alias = keys[j].alias
            \/ \E i, j \in 1..Len(lists.services) :
                  i # j /\ lists.services[i].alias = lists.services[j].alias)
           => BuilderConstructorError(lists) = ErrDuplicateAlias

C2_DuplicateCallFails ==
    /\ (result'.op \in {"managementKey", "didKey"} /\ result'.alias \in usedKeyAliases)
          => (result'.error = ErrDuplicateAlias /\ UNCHANGED <<managementKeys, didKeys>>)
    /\ (result'.op = "service" /\ result'.alias \in usedServiceAliases)
          => (result'.error = ErrDuplicateAlias /\ UNCHANGED services)

C2_AliasesUnique ==
    /\ [](C2_AliasesDistinct /\ C2_ConstructorRejectsDuplicates)
    /\ [][C2_DuplicateCallFails]_vars

\* A key added through an updater under an alias that is in use is rejected.
C2_Witness ==
    /\ updater # <<>>
    /\ result.op = "didKey"
    /\ result.error = ErrDuplicateAlias
    /\ Len(managementKeys.items) + Len(didKeys.items) >= 2

\* C3: once build() has returned a DID, no call on the builder or on an
\* updater, deactivator or upgrader made from it changes the DID's id, nonce,
\* network, specVersion or the contents of its three collections.
C3_BuiltDIDNeverChanges ==
    [][(did # <<>> /\ result'.op # "build") => did' = did]_vars

\* A DID whose builder has since moved to another network and had a
\* management key revoked through an updater.
C3_Witness ==
    /\ did # <<>>
    /\ updater # <<>>
    /\ network # did[1].network
    /\ managementKeys.items # did[1].managementKeys.items

\* C4: the update entry is signed by the management key of smallest priority
\* in the snapshot the updater took, the first such key in snapshot order on
\* ties, and extIds[2] is the full id of that key; revoking or rotating that
\* key, or adding a key of smaller priority, since the snapshot changes nothing.
C4_SignedBySnapshotKey ==
    [][(result'.op = "DIDUpdater.exportEntryData" /\ result'.error = NoError) =>
          LET snapshot == updater[1].originalManagementKeys
              entry == result'.entry[1]
          IN \E i \in 1..Len(snapshot) :
                /\ \A j \in 1..Len(snapshot) : snapshot[j].priority >= snapshot[i].priority
                /\ \A j \in 1..(i - 1) : snapshot[j].priority > snapshot[i].priority
                /\ entry.extIds[3] = <<id, snapshot[i].alias>>
                /\ entry.extIds[4].signer = snapshot[i].underlyingKey.verifyingKey
                /\ entry.extIds[4].message =
                      Sha256(<<entry.extIds[1], entry.extIds[2], entry.extIds[3], entry.content>>)]_vars

\* An update signed by a snapshot key although the builder now holds a
\* management key of smaller priority.
C4_Witness ==
    /\ result.op = "DIDUpdater.exportEntryData"
    /\ result.error = NoError
    /\ \E j \in 1..Len(updater[1].originalManagementKeys), i \in 1..Len(managementKeys.items) :
          /\ result.entry[1].extIds[3] = <<id, updater[1].originalManagementKeys[j].alias>>
          /\ managementKeys.items[i].priority < updater[1].originalManagementKeys[j].priority

\* The list of one collection in the add or the revoke object of an update
\* entry's content, empty when the content has none.
EntryList(content, section, collection) ==
    IF section \in DOMAIN content /\ collection \in DOMAIN content[section]
    THEN content[section][collection] ELSE <<>>

\* The current keys that are rotated keys of the snapshot: same alias, other key pair.
RotatedKeys(original, current) ==
    {key \in Range(current) :
        \E j \in 1..Len(original) :
            original[j].alias = key.alias /\ original[j].underlyingKey # key.underlyingKey}

\* The rotated keys of a collection are in its add list with their new public key.
RotatedKeysAdded(original, current, collection) ==
    \A key \in RotatedKeys(original, current) :
        \E e \in Range(EntryList(result.entry[1].content, "add", collection)) :
            /\ e.id = <<id, key.alias>>
            /\ e[ON_CHAIN_PUB_KEY_NAME(key.keyType)] = key.underlyingKey.verifyingKey

\* The ids of the rotated keys of a collection are in its revoke list.
RotatedKeysRevoked(original, current, collection) ==
    \A key \in RotatedKeys(original, current) :
        [id |-> <<id, key.alias>>]
            \in Range(EntryList(result.entry[1].content, "revoke", collection))

\* No id of a rotated key of a collection is in its revoke list.
RotatedKeysNotRevoked(original, current, collection) ==
    \A key \in RotatedKeys(original, current) :
        \A r \in Range(EntryList(result.entry[1].content, "revoke", collection)) :
            r.id # <<id, key.alias>>

\* C5 (as the code has it): after rotateManagementKey(alias) or
\* rotateDIDKey(alias) on a key of the snapshot, the exported update entry
\* lists the key with its new public key in the add object and lists {id} of
\* the key in the revoke object: a rotation is the revocation of the old key
\* and the addition of the new one under the same id.
C5_RotatedKeyAddedAndRevoked ==
    (result.op = "DIDUpdater.exportEntryData" /\ result.error = NoError) =>
        /\ RotatedKeysAdded(updater[1].originalManagementKeys, managementKeys.items, "managementKey")
        /\ RotatedKeysAdded(updater[1].originalDIDKeys, didKeys.items, "didKey")
        /\ RotatedKeysRevoked(updater[1].originalManagementKeys, managementKeys.items, "managementKey")
        /\ RotatedKeysRevoked(updater[1].originalDIDKeys, didKeys.items, "didKey")

\* C5 as stated: the rotated key is in the add object and its id is not in
\* the revoke object.
C5_RotatedKeyOnlyAdded ==
    (result.op = "DIDUpdater.exportEntryData" /\ result.error = NoError) =>
        /\ RotatedKeysAdded(updater[1].originalManagementKeys, managementKeys.items, "managementKey")
        /\ RotatedKeysAdded(updater[1].originalDIDKeys, didKeys.items, "didKey")
        /\ RotatedKeysNotRevoked(updater[1].originalManagementKeys, managementKeys.items, "managementKey")
        /\ RotatedKeysNotRevoked(updater[1].originalDIDKeys, didKeys.items, "didKey")

\* An exported update of an updater on which a DID key of the snapshot was rotated.
C5_Witness ==
    /\ result.op = "DIDUpdater.exportEntryData"
    /\ result.error = NoError
    /\ RotatedKeys(updater[1].originalDIDKeys, didKeys.items) # {}

\* The add and revoke lists of one collection are the difference of the
\* current collection and the snapshot by value: one entry object for each
\* current entity equal to no snapshot entity, one {id} for each snapshot
\* entity equal to no current entity.  Items of the revoke list that carry a
\* purpose are the pending purpose revocations and are left aside.
IsValueDifference(original, current, collection) ==
    LET content == result.entry[1].content
        entryObj(e) == CASE collection = "managementKey" -> ManagementKeyToEntryObj(e, id)
                         [] collection = "didKey" -> DIDKeyToEntryObj(e, id)
                         [] collection = "service" -> ServiceToEntryObj(e, id)
        added == EntryList(content, "add", collection)
        wholeKey(item) == "purpose" \notin DOMAIN item
        revoked == SelectSeq(EntryList(content, "revoke", collection), wholeKey)
        new == {e \in Range(current) : \A j \in 1..Len(original) : original[j] # e}
        gone == {o \in Range(original) : \A i \in 1..Len(current) : current[i] # o}
    IN /\ Range(added) = {entryObj(e) : e \in new}
       /\ Len(added) = Cardinality(new)
       /\ Range(revoked) = {[id |-> <<id, o.alias>>] : o \in gone}
       /\ Len(revoked) = Cardinality(gone)

\* C6: in an exported update entry, for each of the three collections and
\* leaving the pending purpose revocations aside, add holds exactly the entry
\* objects of the current entities that are value-equal (all fields, key
\* material included) to no entity of the snapshot, and revoke holds exactly
\* one {id} for each snapshot entity value-equal to no current entity; an
\* entity unchanged since the snapshot is in neither.
C6_AddAndRevokeAreTheDifference ==
    (result.op = "DIDUpdater.exportEntryData" /\ result.error = NoError) =>
        /\ IsValueDifference(updater[1].originalManagementKeys, managementKeys.items,
                             "managementKey")
        /\ IsValueDifference(updater[1].originalDIDKeys, didKeys.items, "didKey")
        /\ IsValueDifference(updater[1].originalServices, services.items, "service")

\* An exported update with an added entity, a revoked entity and an entity
\* that is unchanged since the snapshot.
C6_Witness ==
    /\ result.op = "DIDUpdater.exportEntryData"
    /\ result.error = NoError
    /\ "add" \in DOMAIN result.entry[1].content
    /\ "revoke" \in DOMAIN result.entry[1].content
    /\ \E key \in Range(managementKeys.items) : key \in Range(updater[1].originalManagementKeys)

\* The current collection and the snapshot hold the same entities by value.
SameEntities(original, current) ==
    /\ \A i \in 1..Len(current) : \E j \in 1..Len(original) : original[j] = current[i]
    /\ \A j \in 1..Len(original) : \E i \in 1..Len(current) : current[i] = original[j]

\* C7: DIDUpdater.exportEntryData fails with the no-changes error and returns
\* no entry exactly when a priority-0 management key is present, each of the
\* three current collections holds the same entities by value as the snapshot
\* and no purpose revocation is pending; an updater on which no operation was
\* called cannot export.
C7_NoChangesExactly ==
    result.op = "DIDUpdater.exportEntryData" =>
        /\ result.error = ErrNoChanges <=>
              /\ \E i \in 1..Len(managementKeys.items) : managementKeys.items[i].priority = 0
              /\ SameEntities(updater[1].originalManagementKeys, managementKeys.items)
              /\ SameEntities(updater[1].originalDIDKeys, didKeys.items)
              /\ SameEntities(updater[1].originalServices, services.items)
              /\ updater[1].didKeyPurposesToRevoke = <<>>
        /\ result.error = ErrNoChanges => result.entry = <<>>

\* An export refused for want of changes, on an updater whose builder was
\* called since the snapshot.
C7_Witness ==
    /\ result.op = "DIDUpdater.exportEntryData"
    /\ result.error = ErrNoChanges
    /\ managementKeys.items # updater[1].originalManagementKeys

\* The keys of the updater's didKeys view that have the alias.
ViewKeys(view, alias) == {i \in 1..Len(view) : view[i].alias = alias}

\* C8: after revokeDIDKeyPurpose(alias, p) on a DID key that holds both
\* purposes, p being one of them, the updater's didKeys view holds exactly one
\* key with that alias; its purpose is exactly the other purpose and its
\* keyType, controller, priorityRequirement and key material are those of the
\* original key; every other key of the view is unchanged.
C8_PurposeRevocationLeavesComplement ==
    [][(/\ result'.op = "revokeDIDKeyPurpose"
        /\ FindByAlias(didKeys.items, result'.alias) # <<>>
        /\ Len(FindByAlias(didKeys.items, result'.alias)[1].purpose) = 2
        /\ result'.purpose \in {PublicKey, AuthenticationKey}) =>
          LET alias == result'.alias
              original == FindByAlias(didKeys.items, alias)[1]
              before == updaterDidKeys
              after == updaterDidKeys'
          IN /\ Cardinality(ViewKeys(after, alias)) = 1
             /\ \A i \in ViewKeys(after, alias) :
                   /\ result'.purpose = PublicKey => after[i].purpose = <<AuthenticationKey>>
                   /\ result'.purpose = AuthenticationKey => after[i].purpose = <<PublicKey>>
                   /\ after[i].keyType = original.keyType
                   /\ after[i].controller = original.controller
                   /\ after[i].priorityRequirement = original.priorityRequirement
                   /\ after[i].underlyingKey = original.underlyingKey
             /\ Len(after) = Len(before)
             /\ \A i \in 1..Len(before) : before[i].alias # alias => after[i] = before[i]]_vars

\* A view in which a key that holds both purposes in the builder shows one,
\* right after a purpose revocation, beside another key.
C8_Witness ==
    /\ result.op = "revokeDIDKeyPurpose"
    /\ updater # <<>>
    /\ Len(didKeys.items) >= 2
    /\ \E i \in 1..Len(didKeys.items) :
          /\ didKeys.items[i].alias = result.alias
          /\ Len(didKeys.items[i].purpose) = 2
          /\ updaterDidKeys[i].purpose = <<remainingPurpose(result.purpose)>>

\* C9: revokeDIDKeyPurpose(alias, p), when p is the only purpose the key holds
\* in the updater's didKeys view (the key had one purpose from the start, or
\* its other purpose was revoked earlier on the same updater), removes the key
\* from the view, as revokeDIDKey(alias) would.
C9_LastPurposeRevocationRemovesKey ==
    [][(/\ result'.op = "revokeDIDKeyPurpose"
        /\ \E i \in ViewKeys(updaterDidKeys, result'.alias) :
              updaterDidKeys[i].purpose = <<result'.purpose>>) =>
          /\ ViewKeys(updaterDidKeys', result'.alias) = {}
          /\ didKeys'.items = FilterOutAlias(didKeys.items, result'.alias)]_vars

\* The same for a key that has a single purpose in the builder (no purpose of
\* it was revoked before on the updater): the code removes it.
C9_SinglePurposeKeyRemoved ==
    [][(/\ result'.op = "revokeDIDKeyPurpose"
        /\ \E i \in 1..Len(didKeys.items) :
              /\ didKeys.items[i].alias = result'.alias
              /\ didKeys.items[i].purpose = <<result'.purpose>>) =>
          /\ ViewKeys(updaterDidKeys', result'.alias) = {}
          /\ didKeys'.items = FilterOutAlias(didKeys.items, result'.alias)]_vars

\* A key removed by the revocation of its single purpose.
C9_Witness ==
    /\ result.op = "revokeDIDKeyPurpose"
    /\ updater # <<>>
    /\ FindByAlias(updater[1].originalDIDKeys, result.alias) # <<>>
    /\ FindByAlias(updater[1].originalDIDKeys, result.alias)[1].purpose = <<result.purpose>>
    /\ FindByAlias(didKeys.items, result.alias) = <<>>

\* C10: deactivate() fails when the builder holds no management key of
\* priority 0, at the construction of the deactivator and without returning
\* an entry; the key a deactivator holds has priority 0, and the deactivation
\* entry it exports is signed by that key, extIds[2] being the key's full id.
C10_DeactivationNeedsPriorityZero ==
    /\ (/\ result.op = "deactivate"
        /\ \A i \in 1..Len(managementKeys.items) : managementKeys.items[i].priority # 0)
          => (result.error # NoError /\ result.entry = <<>>)
    /\ deactivator # <<>> => deactivator[1].signingKey.priority = 0
    /\ (result.op = "DIDDeactivator.exportEntryData" /\ result.error = NoError) =>
          LET entry == result.entry[1]
              key == deactivator[1].signingKey
          IN /\ key.priority = 0
             /\ entry.extIds[3] = <<id, key.alias>>
             /\ entry.extIds[4].signer = key.underlyingKey.verifyingKey
             /\ entry.extIds[4].message =
                   Sha256(<<entry.extIds[1], entry.extIds[2], entry.extIds[3]>>)

\* A deactivation entry exported for a builder whose keys were not in the
\* order of their priorities.
C10_Witness ==
    /\ result.op = "DIDDeactivator.exportEntryData"
    /\ result.error = NoError
    /\ Len(managementKeys.items) >= 2
    /\ deactivator[1].signingKey.alias = "k1"
    /\ updater = <<>>

\* The numbers of a version string, major.minor.patch; <<>> for a string
\* that is not a version.
VersionNumbers(version) ==
    CASE version = "0.1.0" -> <<<<0, 1, 0>>>>
      [] version = "0.2.0" -> <<<<0, 2, 0>>>>
      [] version = "0.2" -> <<<<0, 2, 0>>>>
      [] version = "0.2.1" -> <<<<0, 2, 1>>>>
      [] version = "0.3.0" -> <<<<0, 3, 0>>>>
      [] version = LongVersion -> <<<<0, 3, 0>>>>
      [] OTHER -> <<>>

\* The first version is strictly greater than the second one.
IsUpgrade(new, current) ==
    /\ VersionNumbers(new) # <<>>
    /\ VersionNumbers(current) # <<>>
    /\ LET n == VersionNumbers(new)[1]
           c == VersionNumbers(current)[1]
       IN \/ n[1] > c[1]
          \/ n[1] = c[1] /\ n[2] > c[2]
          \/ n[1] = c[1] /\ n[2] = c[2] /\ n[3] > c[3]

\* C11: on a builder with management keys, upgradeSpecVersion(v) fails when v
\* is absent or is not strictly greater than the builder's specVersion, and
\* succeeds for every v that is strictly greater than it.
C11_UpgradeIffStrictlyGreater ==
    [][\A v \in VersionInputs :
          (upgradeSpecVersion(v) /\ managementKeys.items # <<>>) =>
              (result'.error = NoError <=> (v # <<>> /\ IsUpgrade(v[1], specVersion)))]_vars

\* An upgrader was created for a version string that is not a number.
C11_Witness ==
    /\ result.op = "upgradeSpecVersion"
    /\ result.error = NoError
    /\ upgrader # <<>>
    /\ VersionNumbers(upgrader[1].newSpecVersion) = <<>>

\* The size of an entry, 35 + 2*|extIds| + the lengths of the extIds + the
\* length of the content, measured on the entry itself; signer is the key
\* that signed it (<<>> for a creation entry, whose third extId is the nonce).
EntrySizeOf(entry, signer) ==
    LET extIdLengths ==
            IF signer = <<>>
            THEN <<StrLen(entry.extIds[1]), StrLen(entry.extIds[2]), NonceLength>>
            ELSE <<StrLen(entry.extIds[1]), StrLen(entry.extIds[2]),
                   FullIdLength(entry.extIds[3]), SignatureLength(signer[1].keyType)>>
        contentLength ==
            CASE entry.extIds[1] = EntryTypeCreate -> DIDDocumentLength(entry.content)
              [] entry.extIds[1] = EntryTypeUpdate -> UpdateContentLength(entry.content)
              [] entry.extIds[1] = EntryTypeVersionUpgrade ->
                   2 + JsonStringLength(StrLen("didMethodVersion")) + 1
                     + JsonStringLength(StrLen(entry.content.didMethodVersion))
              [] entry.extIds[1] = EntryTypeDeactivation -> 0
    IN 35 + 2 * Len(entry.extIds) + SumSeq(extIdLengths) + contentLength

\* The key of a list that an entry names as its signer.
SignerOf(entry, keys) == FindByAlias(keys, entry.extIds[3][2])

\* The size of the entry the last export returned.
ReturnedEntrySize ==
    CASE result.op = "DID.exportEntryData" -> EntrySizeOf(result.entry[1], <<>>)
      [] result.op = "DIDUpdater.exportEntryData" ->
           EntrySizeOf(result.entry[1],
                       SignerOf(result.entry[1], updater[1].originalManagementKeys))
      [] result.op = "DIDVersionUpgrader.exportEntryData" ->
           EntrySizeOf(result.entry[1], SignerOf(result.entry[1], managementKeys.items))
      [] result.op = "DIDDeactivator.exportEntryData" ->
           EntrySizeOf(result.entry[1], <<deactivator[1].signingKey>>)

\* The create and the update export fail with the size-limit error exactly
\* when the entry they would return is larger than the limit, and the entries
\* they return are within the limit.
CreateAndUpdateWithinSizeLimit ==
    /\ (result.op = "DID.exportEntryData"
          /\ result.error \in {NoError, ErrCreateSizeLimit}) =>
         (result.error = ErrCreateSizeLimit
            <=> EntrySizeOf(DIDEntry(did[1]), <<>>) > ENTRY_SIZE_LIMIT)
    /\ (result.op = "DIDUpdater.exportEntryData"
          /\ result.error \in {NoError, ErrUpdateSizeLimit}) =>
         (result.error = ErrUpdateSizeLimit
            <=> EntrySizeOf(UpdateEntry(updater[1]),
                            SignerOf(UpdateEntry(updater[1]), updater[1].originalManagementKeys))
                  > ENTRY_SIZE_LIMIT)
    /\ (result.op \in {"DID.exportEntryData", "DIDUpdater.exportEntryData"}
          /\ result.entry # <<>>) => ReturnedEntrySize <= ENTRY_SIZE_LIMIT

\* C12: every entry returned by the create, update, version upgrade and
\* deactivation exports has a size of 35 + 2*|extIds| + the extId lengths +
\* the content length that is not greater than the entry size limit; an export
\* whose entry would be larger fails with the size-limit error.
C12_EntriesWithinSizeLimit ==
    /\ CreateAndUpdateWithinSizeLimit
    /\ result.entry # <<>> => ReturnedEntrySize <= ENTRY_SIZE_LIMIT

\* C12, the part the code keeps: the create and update exports return no
\* entry larger than the limit and fail with the size-limit error instead.
C12_CreateAndUpdateEntriesWithinSizeLimit == CreateAndUpdateWithinSizeLimit

\* A version upgrade entry larger than the limit was returned.
C12_Witness ==
    /\ result.op = "DIDVersionUpgrader.exportEntryData"
    /\ result.entry # <<>>
    /\ ReturnedEntrySize > ENTRY_SIZE_LIMIT

\* The create export and the update export have failed on the size limit.
C12_CreateSizeErrorReached ==
    result.op = "DID.exportEntryData" /\ result.error = ErrCreateSizeLimit

C12_UpdateSizeErrorReached ==
    result.op = "DIDUpdater.exportEntryData" /\ result.error = ErrUpdateSizeLimit

\* C13: when managementKey, didKey or service, called directly or through the
\* updater's addManagementKey, addDIDKey or addService, fails for any reason,
\* the builder's three collections and its sets of used key aliases and used
\* service aliases are exactly as they were before the call.
C13_FailedAddChangesNothing ==
    [][(result'.op \in {"managementKey", "didKey", "service"} /\ result'.error # NoError) =>
          UNCHANGED <<managementKeys, didKeys, services, usedKeyAliases, usedServiceAliases>>]_vars

\* An add has failed on the frozen collection of a built DID and its alias,
\* which no key or service holds, is registered as used.
C13_Witness ==
    /\ result.op \in {"managementKey", "didKey", "service"}
    /\ result.error = ErrTypeError
    /\ result.alias \in usedKeyAliases \cup usedServiceAliases
    /\ FindByAlias(managementKeys.items \o didKeys.items \o services.items, result.alias) = <<>>

\* C14: when rotateManagementKey(alias) or rotateDIDKey(alias) fails because
\* the targeted key has no private key, the updater's management keys and DID
\* keys are exactly as before the call: the targeted key is still there with
\* its old key material.
C14_FailedRotationChangesNothing ==
    [][(/\ result'.op \in {"rotateManagementKey", "rotateDIDKey"}
        /\ result'.error = ErrRotateNoPrivateKey) =>
          /\ updaterManagementKeys' = updaterManagementKeys
          /\ updaterDidKeys' = updaterDidKeys]_vars

\* A rotation has failed on a key without private key and no management key
\* or DID key of the updater has the alias any more.
C14_Witness ==
    /\ result.op \in {"rotateManagementKey", "rotateDIDKey"}
    /\ result.error = ErrRotateNoPrivateKey
    /\ FindByAlias(updaterManagementKeys \o updaterDidKeys, result.alias) = <<>>

\* The entry has the four extIds of a signed entry of the given type and its
\* signature verifies, under the public key of the key of the list that the
\* third extId names, over the SHA-256 digest of the concatenation of the
\* signed parts.
IsSignedEntry(entry, entryType, keys, signedParts) ==
    LET signer == FindByAlias(keys, entry.extIds[3][2])
    IN /\ Len(entry.extIds) = 4
       /\ entry.extIds[1] = entryType
       /\ entry.extIds[2] = ENTRY_SCHEMA_V100
       /\ entry.extIds[3][1] = id
       /\ signer # <<>>
       /\ verify(signer[1], Sha256(signedParts), entry.extIds[4])

\* C15: every returned update, version upgrade and deactivation entry has the
\* extIds [entry type, schema version, signingKeyId, signature]; the signature
\* verifies under the public key of the key named by signingKeyId over the
\* SHA-256 digest of type, schema version, signingKeyId and, for update and
\* upgrade, the returned content; the deactivation content is empty and is
\* not part of what is signed.
C15_SignatureOverDigest ==
    LET entry == result.entry[1]
        header == <<entry.extIds[1], entry.extIds[2], entry.extIds[3]>>
    IN result.entry # <<>> =>
         /\ result.op = "DIDUpdater.exportEntryData" =>
              IsSignedEntry(entry, EntryTypeUpdate, updater[1].originalManagementKeys,
                            Append(header, entry.content))
         /\ result.op = "DIDVersionUpgrader.exportEntryData" =>
              IsSignedEntry(entry, EntryTypeVersionUpgrade, managementKeys.items,
                            Append(header, entry.content))
         /\ result.op = "DIDDeactivator.exportEntryData" =>
              /\ entry.content = ""
              /\ IsSignedEntry(entry, EntryTypeDeactivation, <<deactivator[1].signingKey>>, header)

\* A deactivation entry has been returned.
C15_Witness ==
    /\ result.op = "DIDDeactivator.exportEntryData"
    /\ result.entry # <<>>
    /\ result.entry[1].extIds[4].signer = deactivator[1].signingKey.underlyingKey.verifyingKey

\* C16: update(), deactivate() and upgradeSpecVersion(v) each fail and create
\* no updater, deactivator or upgrader whenever the builder holds no
\* management key, also when its management keys were all revoked through an
\* earlier updater.
C16_NoManagementKeysNoOperation ==
    [][(/\ result'.op \in {"update", "deactivate", "upgradeSpecVersion"}
        /\ managementKeys.items = <<>>) =>
          /\ result'.op = "update" => result'.error = ErrUpdateNoMgmtKeys
          /\ result'.op = "deactivate" => result'.error = ErrDeactivateNoMgmtKeys
          /\ result'.op = "upgradeSpecVersion" => result'.error = ErrUpgradeNoMgmtKeys
          /\ UNCHANGED <<updater, deactivator, upgrader>>]_vars

\* update() has failed on a builder whose management keys were all revoked
\* through an earlier updater.
C16_Witness ==
    /\ result.op = "update"
    /\ result.error = ErrUpdateNoMgmtKeys
    /\ updater # <<>>
    /\ updater[1].originalManagementKeys # <<>>
    /\ managementKeys.items = <<>>

\* The management keys and DID keys of a DID.
KeysOfDID(d) == d.managementKeys.items \o d.didKeys.items

\* C17: in every DID returned by build(), each management key and DID key
\* that was added through managementKey or didKey without an explicit
\* controller has the DID's id as controller, whatever the order of
\* mainnet(), testnet() and the additions.  The keys of a builder that
\* generated its own id were all added that way, the calls made here passing
\* no controller.
C17_DefaultControllerIsTheDIDId ==
    (did # <<>> /\ did[1].nonce # <<>>) =>
        \A i \in 1..Len(KeysOfDID(did[1])) : KeysOfDID(did[1])[i].controller = did[1].id

\* A DID was built with a key that was added before the network was set: the
\* controller of the key has the chain id of the DID but not its network.
C17_Witness ==
    /\ did # <<>>
    /\ did[1].nonce # <<>>
    /\ \E i \in 1..Len(KeysOfDID(did[1])) :
          /\ KeysOfDID(did[1])[i].controller # did[1].id
          /\ KeysOfDID(did[1])[i].controller.chainId = did[1].id.chainId

\* Every field of the builder but its id and its network.
BuilderRest ==
    <<nonce, specVersion, managementKeys, didKeys, services, usedKeyAliases, usedServiceAliases>>

\* The id matches the DID-id grammar and the network is the network segment
\* of the id, unspecified when the id has none.
NetworkIsTheSegmentOfTheId ==
    /\ isValidDIDId(id)
    /\ network = id.network

\* A mainnet() or testnet() step sets the network segment of the id and the
\* network to the network of the call, whatever they were, and keeps the chain
\* id and the rest of the builder; on a builder that is on that network
\* already it changes nothing.
NetworkCallSetsTheSegment ==
    \A net \in {Mainnet, Testnet} :
        result'.op = net =>
            /\ network' = net
            /\ id'.network = net
            /\ id'.chainId = id.chainId
            /\ UNCHANGED BuilderRest
            /\ network = net => UNCHANGED builderVars

\* C18: in every reachable builder state the id matches the DID-id grammar
\* and the builder's network is the network segment of the id; mainnet() and
\* testnet() change only the network segment and keep the chain id, each is
\* idempotent, and the last call of the two determines the network.
C18_NetworkFollowsTheId ==
    [](NetworkIsTheSegmentOfTheId) /\ [][NetworkCallSetsTheSegment]_vars

\* testnet() was called on a builder whose id was a mainnet id: the id has
\* the same chain id and the testnet segment.
C18_Witness ==
    /\ result.op = "testnet"
    /\ nonce = <<>>
    /\ network = Testnet
    /\ id = MakeId(Testnet, ExistingDidId.chainId)

\* C19: every creation entry returned by DID.exportEntryData has exactly the
\* extIds [create tag, schema version tag, nonce], the nonce being the 32
\* random bytes the builder drew, and calculateChainId of these extIds is the
\* chain id of the DID's id, also when mainnet() or testnet() was applied to
\* the builder.
C19_CreationExtIdsGiveTheChainId ==
    (result.op = "DID.exportEntryData" /\ result.entry # <<>>) =>
        /\ result.entry[1].extIds = <<EntryTypeCreate, ENTRY_SCHEMA_V100, GeneratedNonce>>
        /\ did[1].nonce = <<GeneratedNonce>>
        /\ calculateChainId(result.entry[1].extIds) = did[1].id.chainId

\* A creation entry was returned for a DID on the main network.
C19_Witness ==
    /\ result.op = "DID.exportEntryData"
    /\ result.entry # <<>>
    /\ did[1].id.network = Mainnet

\* The entry objects of a collection of the DID, in the order of the collection.
EntryObjectsOf(items, d) == [i \in 1..Len(items) |-> toEntryObj(items[i], d.id)]

\* The content of a returned creation entry is the document made of the DID's
\* specVersion and of the entry objects of its collections, each in the order
\* of the collection, didKey and service being there exactly when their
\* collection is not empty.
CreationContentListsTheCollections ==
    (result.op = "DID.exportEntryData" /\ result.entry # <<>>) =>
        LET content == result.entry[1].content
            d == did[1]
        IN /\ DOMAIN content =
                {"didMethodVersion", "managementKey"}
                  \cup (IF d.didKeys.items # <<>> THEN {"didKey"} ELSE {})
                  \cup (IF d.services.items # <<>> THEN {"service"} ELSE {})
           /\ content.didMethodVersion = d.specVersion
           /\ content.managementKey = EntryObjectsOf(d.managementKeys.items, d)
           /\ d.didKeys.items # <<>> => content.didKey = EntryObjectsOf(d.didKeys.items, d)
           /\ d.services.items # <<>> => content.service = EntryObjectsOf(d.services.items, d)

\* The elements kept from one collection to the next keep their order, and
\* the elements that are new come after them.
KeepsInsertionOrder(before, after) ==
    \A m, n \in 1..Len(after) :
        /\ (\E i, j \in 1..Len(before) : i < j /\ before[i] = after[m] /\ before[j] = after[n])
              => m < n
        /\ ((\E i \in 1..Len(before) : before[i] = after[m])
              /\ (\A j \in 1..Len(before) : before[j] # after[n])) => m < n

\* No call reorders the collections of a builder that generated its id, the
\* builder whose DID exports a creation entry: they are in insertion order.
CollectionsKeepInsertionOrder ==
    nonce # <<>> =>
        /\ KeepsInsertionOrder(managementKeys.items, managementKeys'.items)
        /\ KeepsInsertionOrder(didKeys.items, didKeys'.items)
        /\ KeepsInsertionOrder(services.items, services'.items)

C20_CreationContentInCollectionOrder == CreationContentListsTheCollections

C20_FullDocumentReached ==
    /\ result.op = "DID.exportEntryData"
    /\ result.entry # <<>>
    /\ "didKey" \in DOMAIN result.entry[1].content

\* The entities of the current collection that are value-equal to no entity
\* of the snapshot, and the snapshot entities value-equal to no current one.
NewEntities(original, current) ==
    {e \in Range(current) : \A j \in 1..Len(original) : original[j] # e}
GoneEntities(original, current) ==
    {o \in Range(original) : \A i \in 1..Len(current) : current[i] # o}

\* The lists of one collection in the content of the returned update entry:
\* each is present exactly when it is not empty, the elements of the revoke
\* list carry id alone, but for one {id, purpose: [revokedPurpose]} for each
\* pending purpose revocation of a DID key, in the order of the revocations
\* and after the elements that carry id alone.
CollectionLayout(content, collection, original, current, pending) ==
    LET revoked == EntryList(content, "revoke", collection)
        whole == Len(revoked) - Len(pending)
    IN /\ ("add" \in DOMAIN content /\ collection \in DOMAIN content.add)
            <=> NewEntities(original, current) # {}
       /\ ("add" \in DOMAIN content /\ collection \in DOMAIN content.add)
            => content.add[collection] # <<>>
       /\ ("revoke" \in DOMAIN content /\ collection \in DOMAIN content.revoke)
            <=> (GoneEntities(original, current) # {} \/ pending # <<>>)
       /\ Len(revoked) = Cardinality(GoneEntities(original, current)) + Len(pending)
       /\ \A i \in 1..Len(revoked) :
             IF i <= whole
             THEN /\ DOMAIN revoked[i] = {"id"}
                  /\ \E o \in GoneEntities(original, current) : revoked[i].id = <<id, o.alias>>
             ELSE /\ DOMAIN revoked[i] = {"id", "purpose"}
                  /\ revoked[i].id = <<id, pending[i - whole].alias>>
                  /\ revoked[i].purpose = <<pending[i - whole].purpose>>

\* C21: in an exported update entry the add and revoke objects, and inside
\* each the managementKey, didKey and service lists, are present exactly when
\* they are not empty; every revoke element carries only id = didId#alias,
\* except that each pending purpose revocation contributes one element
\* {id, purpose: [revokedPurpose]} to revoke.didKey, after the revocations of
\* whole DID keys.
C21_UpdateEntryLayout ==
    (result.op = "DIDUpdater.exportEntryData" /\ result.error = NoError) =>
        LET content == result.entry[1].content
            u == updater[1]
        IN /\ DOMAIN content \subseteq {"add", "revoke"}
           /\ \A section \in DOMAIN content :
                 /\ DOMAIN content[section] # {}
                 /\ DOMAIN content[section] \subseteq {"managementKey", "didKey", "service"}
           /\ "add" \in DOMAIN content <=>
                 (\/ NewEntities(u.originalManagementKeys, managementKeys.items) # {}
                  \/ NewEntities(u.originalDIDKeys, didKeys.items) # {}
                  \/ NewEntities(u.originalServices, services.items) # {})
           /\ "revoke" \in DOMAIN content <=>
                 (\/ GoneEntities(u.originalManagementKeys, managementKeys.items) # {}
                  \/ GoneEntities(u.originalDIDKeys, didKeys.items) # {}
                  \/ GoneEntities(u.originalServices, services.items) # {}
                  \/ u.didKeyPurposesToRevoke # <<>>)
           /\ CollectionLayout(content, "managementKey", u.originalManagementKeys,
                               managementKeys.items, <<>>)
           /\ CollectionLayout(content, "didKey", u.originalDIDKeys, didKeys.items,
                               u.didKeyPurposesToRevoke)
           /\ CollectionLayout(content, "service", u.originalServices, services.items, <<>>)

\* An update entry whose revoke.didKey list holds the revocation of a whole
\* key followed by a purpose revocation.
C21_Witness ==
    /\ result.op = "DIDUpdater.exportEntryData"
    /\ result.error = NoError
    /\ LET revoked == EntryList(result.entry[1].content, "revoke", "didKey")
       IN /\ Len(revoked) = 2
          /\ DOMAIN revoked[1] = {"id"}
          /\ DOMAIN revoked[2] = {"id", "purpose"}

\* The key of least priority of a list, the first of them in the order of the
\* list: the key a stable sort by priority puts first.
FirstOfLeastPriority(keys) ==
    LET i == CHOOSE i \in 1..Len(keys) :
                /\ \A j \in 1..Len(keys) : keys[j].priority >= keys[i].priority
                /\ \A j \in 1..(i - 1) : keys[j].priority > keys[i].priority
    IN keys[i]

\* The export that selected the key for signing failed with the
\* private-key-not-set error and returned nothing when the key has no private
\* key, and the entry it returned otherwise names that key and is signed by it.
SignedBySelectedKeyOrFails(key) ==
    /\ key.underlyingKey.signingKey = <<>> =>
          (result.error = ErrPrivateKeyNotSet /\ result.entry = <<>>)
    /\ result.entry # <<>> =>
          /\ result.entry[1].extIds[3] = <<id, key.alias>>
          /\ result.entry[1].extIds[4].signer = key.underlyingKey.signingKey[1]

\* C26: exportEntryData of an updater, an upgrader or a deactivator fails with
\* the private-key-not-set error and returns no entry whenever the management
\* key it selected for signing (the first key of least priority of the
\* updater's snapshot, of the builder's current keys for the upgrader, the key
\* the deactivator holds) was constructed from a public key only; a returned
\* entry is always signed by the selected key, never by another one.
C26_NoPrivateKeyNoEntry ==
    /\ (result.op = "DIDUpdater.exportEntryData"
          /\ result.error \notin {ErrUpdateNoPriorityZero, ErrNoChanges}) =>
         SignedBySelectedKeyOrFails(FirstOfLeastPriority(updater[1].originalManagementKeys))
    /\ (result.op = "DIDVersionUpgrader.exportEntryData"
          /\ result.error \notin {ErrTypeError, ErrUndefinedSigningKey}) =>
         SignedBySelectedKeyOrFails(FirstOfLeastPriority(managementKeys.items))
    /\ result.op = "DIDDeactivator.exportEntryData" =>
         SignedBySelectedKeyOrFails(deactivator[1].signingKey)

\* The export of an upgrader has failed for want of the private key of the
\* selected key although the builder holds a management key of priority 0
\* that has its private key.
C26_Witness ==
    /\ result.op = "DIDVersionUpgrader.exportEntryData"
    /\ result.error = ErrPrivateKeyNotSet
    /\ result.entry = <<>>
    /\ \E i \in 1..Len(managementKeys.items) :
          /\ managementKeys.items[i].priority = 0
          /\ managementKeys.items[i].underlyingKey.signingKey # <<>>

\* A rotation step on a collection that holds the alias: the collection keeps
\* its aliases, every other key is in it as it was, and the key of the alias
\* keeps every field but its key pair, whose public and private key are both
\* new.
RotationReplacesTheKeyPair(before, after, alias) ==
    LET old == FindByAlias(before, alias)[1]
        new == FindByAlias(after, alias)
    IN /\ {k.alias : k \in Range(after)} = {k.alias : k \in Range(before)}
       /\ Len(after) = Len(before)
       /\ \A k \in Range(before) : k.alias # alias => k \in Range(after)
       /\ new # <<>>
       /\ [new[1] EXCEPT !.underlyingKey = old.underlyingKey] = old
       /\ new[1].underlyingKey.verifyingKey # old.underlyingKey.verifyingKey
       /\ new[1].underlyingKey.signingKey # old.underlyingKey.signingKey
       /\ new[1].underlyingKey.signingKey # <<>>

\* C28: after a successful rotateManagementKey(alias) or rotateDIDKey(alias)
\* on a key the collection holds, the collection has the same aliases as
\* before, every other key is unchanged, and the targeted key keeps its alias,
\* keyType, controller, priorityRequirement and priority (or purpose) while
\* its public and private key both differ from the previous ones; the
\* snapshot of the updater, and so the key object it holds, is as it was.
C28_RotationReplacesOnlyTheKeyPair ==
    [][/\ (/\ result'.op = "rotateManagementKey"
           /\ result'.error = NoError
           /\ FindByAlias(managementKeys.items, result'.alias) # <<>>) =>
             /\ RotationReplacesTheKeyPair(managementKeys.items, managementKeys'.items, result'.alias)
             /\ UNCHANGED <<didKeys, services, updater>>
       /\ (/\ result'.op = "rotateDIDKey"
           /\ result'.error = NoError
           /\ FindByAlias(didKeys.items, result'.alias) # <<>>) =>
             /\ RotationReplacesTheKeyPair(didKeys.items, didKeys'.items, result'.alias)
             /\ UNCHANGED <<managementKeys, services, updater>>]_vars

\* A management key of the snapshot was rotated: the builder holds the alias
\* with another key pair beside another management key, and the snapshot
\* holds it with the old one.
C28_Witness ==
    /\ result.op = "rotateManagementKey"
    /\ result.error = NoError
    /\ Len(managementKeys.items) >= 2
    /\ \E i \in 1..Len(managementKeys.items), j \in 1..Len(updater[1].originalManagementKeys) :
          /\ managementKeys.items[i].alias = result.alias
          /\ updater[1].originalManagementKeys[j].alias = result.alias
          /\ managementKeys.items[i].underlyingKey
               # updater[1].originalManagementKeys[j].underlyingKey

\* The outcome of the creation export of a DID on the unspecified network
\* that holds n keys, all management keys of priority 0 given in the loop.
ExportOfManyKeys(n) ==
    /\ result.op = "DID.exportEntryData"
    /\ did[1].network = Unspecified
    /\ Len(did[1].managementKeys.items) = n

\* C23 (as the code has it, with the size limit of 10,000 bytes): the creation
\* export of a DID built with 35 management keys of the default Ed25519 type
\* (aliases my-management-key-0 .. my-management-key-34, priority 0, default
\* controller) fails with the size-limit error, and so does the export of the
\* same DID with 34 or with 33 such keys; with 1 to 32 such keys it succeeds.
C23_ThirtyThreeKeysExceedTheLimit ==
    \A n \in 1..(MaxManyKeys + 1) :
        ExportOfManyKeys(n) =>
            IF n >= 33 THEN result.error = ErrCreateSizeLimit /\ result.entry = <<>>
            ELSE result.error = NoError /\ result.entry # <<>>

\* C23 as stated: the export fails on the size limit with 35 keys and
\* succeeds with 34.
C23_ThirtyFiveKeysExceedTheLimit ==
    /\ ExportOfManyKeys(35) => (result.error = ErrCreateSizeLimit /\ result.entry = <<>>)
    /\ ExportOfManyKeys(34) => (result.error = NoError /\ result.entry # <<>>)

\* The creation export of the DID with 34 keys has failed on the size limit.
C23_Witness ==
    /\ ExportOfManyKeys(34)
    /\ result.error = ErrCreateSizeLimit
    /\ \A i \in 1..34 :
          /\ did[1].managementKeys.items[i].alias = ManagementKeyAlias(i - 1)
          /\ did[1].managementKeys.items[i].keyType = EdDSA
          /\ did[1].managementKeys.items[i].priority = 0
          /\ did[1].managementKeys.items[i].controller = did[1].id

\* The creation exports of the DIDs with 35 and with 32 keys.
C23_ThirtyFiveKeysFail == ExportOfManyKeys(35) /\ result.error = ErrCreateSizeLimit
C23_ThirtyTwoKeysExport == ExportOfManyKeys(32) /\ result.error = NoError

\* ------------------------------------------------ the library's functions
\* Calls of the library's functions and constructors outside a builder
\* session: result holds the last call with its arguments and what it
\* returned, and the builder is the one the last DID.builder call made.
LibraryInit == NewBuilder /\ NothingBuiltYet(NoError)

LibraryFrame ==
    UNCHANGED <<builderVars, did, aliased, updater, deactivator, upgrader, calls>>

Returned(op, error, value) == Result(op, error, "", <<value>>)

\* The byte lengths of the extIds and of the content given to calculateEntrySize.
ExtIdLengths == {0, 1, 32}
ContentLengths == {0, 1, ENTRY_SIZE_LIMIT}
ExtIdLists == UNION {[1..n -> ExtIdLengths] : n \in 0..MaxExtIds}

calculateEntrySizeCall(extIdLengths, contentLength) ==
    /\ result' = Returned("calculateEntrySize", NoError,
                          [extIds |-> extIdLengths, content |-> contentLength,
                           returned |-> calculateEntrySize(extIdLengths, contentLength)])
    /\ LibraryFrame

\* The key texts given to a key's constructor: none, or the text of key
\* material 1 or 2.
KeyTexts == {<<>>, <<<<"text", 1>>>>, <<<<"text", 2>>>>}
PriorityRequirements == {<<>>, <<1>>}
LibraryPurposes == {<<PublicKey>>, <<AuthenticationKey, PublicKey>>}
Messages == {"message-1", "message-2"}
\* No version (the default one), the entry schema version, and two others.
SchemaVersions == {<<>>, <<ENTRY_SCHEMA_V100>>, <<"1.0.1">>, <<"">>}

KeyConstructors == {"new ManagementKey", "new DIDKey"}

\* What a constructor call leaves in result: its arguments, and the key when
\* it did not throw.
Constructed(op, keyType, publicKeyText, privateKeyText, invalid, key) ==
    LET error == IF invalid # NoError THEN invalid
                 ELSE UnderlyingKeyError(keyType, publicKeyText, privateKeyText)
    IN Returned(op, error,
                [keyType |-> keyType, publicKey |-> publicKeyText,
                 privateKey |-> privateKeyText,
                 key |-> IF error = NoError THEN <<key>> ELSE <<>>])

\* new ManagementKey('k1', 0, keyType, controller, priorityRequirement, publicKey, privateKey)
newManagementKey(keyType, priorityRequirement, publicKeyText, privateKeyText) ==
    /\ result' = Constructed("new ManagementKey", keyType, publicKeyText, privateKeyText,
                     ManagementKeyError("k1", 0, keyType, ExistingDidId, priorityRequirement),
                     ManagementKey("k1", 0, keyType, ExistingDidId, priorityRequirement,
                                   UnderlyingKey(keyType, publicKeyText, privateKeyText,
                                                 FreshKeyMaterial)))
    /\ LibraryFrame

\* new DIDKey('k1', purpose, keyType, controller, priorityRequirement, publicKey, privateKey)
newDIDKey(purposes, keyType, priorityRequirement, publicKeyText, privateKeyText) ==
    /\ result' = Constructed("new DIDKey", keyType, publicKeyText, privateKeyText,
                     DIDKeyError("k1", purposes, keyType, ExistingDidId, priorityRequirement),
                     DIDKey("k1", purposes, keyType, ExistingDidId, priorityRequirement,
                            UnderlyingKey(keyType, publicKeyText, privateKeyText,
                                          FreshKeyMaterial)))
    /\ LibraryFrame

\* key.sign(message) on the key just constructed.
keySign(message) ==
    /\ result.op \in KeyConstructors
    /\ result.error = NoError
    /\ LET key == result.entry[1].key[1]
       IN result' = Returned("sign", ErrorOfSign(key),
                             [key |-> key, message |-> message,
                              signature |-> IF ErrorOfSign(key) = NoError
                                            THEN <<sign(key, message)>> ELSE <<>>])
    /\ LibraryFrame

\* key.verify(message, signature) with the signature just made by the key.
keyVerify(message) ==
    /\ result.op = "sign"
    /\ result.error = NoError
    /\ LET key == result.entry[1].key
           signature == result.entry[1].signature[1]
       IN result' = Returned("verify", ErrorOfVerify(key),
                             [key |-> key, signed |-> result.entry[1].message,
                              message |-> message,
                              returned |-> IF ErrorOfVerify(key) = NoError
                                           THEN <<verify(key, message, signature)>>
                                           ELSE <<>>])
    /\ LibraryFrame

\* key.toEntryObj(didId, version) on the key just constructed.
keyToEntryObj(version) ==
    /\ result.op \in KeyConstructors
    /\ result.error = NoError
    /\ LET key == result.entry[1].key[1]
           entryObj == IF "priority" \in DOMAIN key
                       THEN ManagementKeyToEntryObj(key, ExistingDidId)
                       ELSE DIDKeyToEntryObj(key, ExistingDidId)
       IN result' = Returned("toEntryObj", ErrorOfToEntryObj(version),
                             [key |-> key, version |-> version,
                              entryObj |-> IF ErrorOfToEntryObj(version) = NoError
                                           THEN <<entryObj>> ELSE <<>>])
    /\ LibraryFrame

\* The custom fields of a service: none, fields of its own, and fields named
\* as the fixed fields of the entry object are.
LibraryCustomFields ==
    {<<>>,
     <<[description |-> "My public social inbox", spamCost |-> 1]>>,
     <<[id |-> fullId(ForeignDidId, "inbox")]>>,
     <<[type |-> "MessagingService"]>>,
     <<[serviceEndpoint |-> [scheme |-> "http", host |-> "example.com"]]>>,
     <<[priorityRequirement |-> 2]>>}

\* new Service('s1', 'EmailService', endpoint, priorityRequirement, customFields)
\* and its toEntryObj(didId, version).
serviceToEntryObj(priorityRequirement, customFields, version) ==
    LET invalid == ServiceError("s1", "EmailService", HttpsEndpoint, priorityRequirement)
        made == Service("s1", "EmailService", HttpsEndpoint, priorityRequirement,
                        customFields)
        error == IF invalid # NoError THEN invalid ELSE ErrorOfToEntryObj(version)
    IN /\ result' = Returned("Service.toEntryObj", error,
                             [service |-> made, version |-> version,
                              entryObj |-> IF error = NoError
                                           THEN <<ServiceToEntryObj(made, ExistingDidId)>>
                                           ELSE <<>>])
       /\ LibraryFrame

\* The ids given to DID.builder(didId): none, ids of the three forms of the
\* grammar, and an id that fails it.
SuppliedDidIds ==
    {<<>>, <<ExistingDidId>>, <<MakeId(Testnet, ExistingDidId.chainId)>>,
     <<MakeId(Unspecified, ExistingDidId.chainId)>>, <<MalformedDidId>>}

\* The constructor that keeps every id it is given.
newDIDBuilderKeepingTheId(didId) ==
    LET newId == IF didId # <<>> THEN didId[1] ELSE generateDIDId(GeneratedNonce)
    IN /\ id' = newId
       /\ nonce' = IF didId # <<>> THEN <<>> ELSE <<GeneratedNonce>>
       /\ network' = getNetworkFromId(newId)
       /\ result' = Returned("DID.builder", NoError, [didId |-> didId])
       /\ UNCHANGED <<specVersion, managementKeys, didKeys, services, usedKeyAliases,
                      usedServiceAliases, did, aliased, updater, deactivator, upgrader, calls>>
\* DID.builder(didId): the DIDBuilder constructor called with an id and no
\* lists.  The id is kept when it is given and valid; _generateDIDId draws the
\* nonce and computes the id otherwise.
newDIDBuilder(didId) ==
    LET kept == didId # <<>> /\ isValidDIDId(didId[1])
        newId == IF kept THEN didId[1] ELSE generateDIDId(GeneratedNonce)
    IN /\ id' = newId
       /\ nonce' = IF kept THEN <<>> ELSE <<GeneratedNonce>>
       /\ network' = getNetworkFromId(newId)
       /\ result' = Returned("DID.builder", NoError, [didId |-> didId])
       /\ UNCHANGED <<specVersion, managementKeys, didKeys, services, usedKeyAliases,
                      usedServiceAliases, did, aliased, updater, deactivator, upgrader, calls>>

LibraryNext ==
    \/ \E extIdLengths \in ExtIdLists, contentLength \in ContentLengths :
          calculateEntrySizeCall(extIdLengths, contentLength)
    \/ \E keyType \in KeyType, priorityRequirement \in PriorityRequirements,
          publicKeyText \in KeyTexts, privateKeyText \in KeyTexts :
          newManagementKey(keyType, priorityRequirement, publicKeyText, privateKeyText)
    \/ \E purposes \in LibraryPurposes, keyType \in KeyType,
          priorityRequirement \in PriorityRequirements,
          publicKeyText \in KeyTexts, privateKeyText \in KeyTexts :
          newDIDKey(purposes, keyType, priorityRequirement, publicKeyText, privateKeyText)
    \/ \E message \in Messages : keySign(message)
    \/ \E message \in Messages : keyVerify(message)
    \/ \E version \in SchemaVersions : keyToEntryObj(version)
    \/ \E priorityRequirement \in PriorityRequirements,
          customFields \in LibraryCustomFields, version \in SchemaVersions :
          serviceToEntryObj(priorityRequirement, customFields, version)
    \/ \E didId \in SuppliedDidIds : newDIDBuilder(didId)

LibrarySpec == LibraryInit /\ [][LibraryNext]_vars

\* ---------------------------------------------------------------- C22
\* The bytes of a list of extIds, counted from the last one back.
RECURSIVE BytesOf(_)
BytesOf(lengths) ==
    IF lengths = <<>> THEN 0
    ELSE BytesOf(SubSeq(lengths, 1, Len(lengths) - 1)) + lengths[Len(lengths)]

\* C22: calculateEntrySize(extIds, content) is 35 + 2 * (number of extIds) +
\* (sum of the byte lengths of the extIds) + (byte length of content), for
\* every list of extIds, the empty list and empty content included.
C22_EntrySizeFormula ==
    result.op = "calculateEntrySize" =>
        LET call == result.entry[1]
        IN call.returned
             = 35 + 2 * Len(call.extIds) + BytesOf(call.extIds) + call.content

\* The size of an entry with two extIds and with content.
C22_Witness ==
    /\ result.op = "calculateEntrySize"
    /\ result.entry[1].extIds = <<32, 1>>
    /\ result.entry[1].content = 1
    /\ result.entry[1].returned = 73

\* The size of an entry with no extId and empty content: the fixed header.
C22_EmptyEntry ==
    /\ result.op = "calculateEntrySize"
    /\ result.entry[1].extIds = <<>>
    /\ result.entry[1].content = 0
    /\ result.entry[1].returned = 35

\* ---------------------------------------------------------------- C25
\* The last call constructed a key from a public and a private key text.
ConstructedFromBoth ==
    /\ result.op \in KeyConstructors
    /\ result.entry[1].publicKey # <<>>
    /\ result.entry[1].privateKey # <<>>

\* The public key text derivable from a private key text.
DerivablePublicKey(privateKeyText) == <<"text", privateKeyText[2]>>

\* A construction from both texts fails when the public key is not the
\* derivable one and otherwise gives a key that keeps both.
PairIsVerified(call, error) ==
    IF call.publicKey[1] # DerivablePublicKey(call.privateKey[1])
    THEN error = ErrKeyMismatch /\ call.key = <<>>
    ELSE /\ error = NoError
         /\ encodePublicKey(call.key[1].underlyingKey) = call.publicKey
         /\ encodePrivateKey(call.key[1].underlyingKey) = call.privateKey

\* C25: for each of the three key algorithms (Ed25519, secp256k1 ECDSA and
\* RSA), constructing a key from a public key and a private key fails when the
\* public key is not the one derivable from the private key, and succeeds,
\* keeping both, when it is.
C25_MismatchedPairIsRefused ==
    ConstructedFromBoth => PairIsVerified(result.entry[1], result.error)

\* The part the code keeps: the keys of the two curves verify the pair, and an
\* RSA key is constructed from a matching pair.
C25_CurveKeysVerifyThePair ==
    (ConstructedFromBoth
       /\ (result.entry[1].keyType # RSA
             \/ result.entry[1].publicKey[1] = DerivablePublicKey(result.entry[1].privateKey[1])))
      => PairIsVerified(result.entry[1], result.error)

\* An RSA key constructed without an error from the public key of one pair and
\* the private key of another.
C25_Witness ==
    /\ ConstructedFromBoth
    /\ result.entry[1].keyType = RSA
    /\ result.entry[1].publicKey = <<<<"text", 1>>>>
    /\ result.entry[1].privateKey = <<<<"text", 2>>>>
    /\ result.error = NoError
    /\ result.entry[1].key[1].underlyingKey = [verifyingKey |-> 1, signingKey |-> <<2>>]

\* An Ed25519 key refused for the same pair of texts.
C25_CurveKeyRefused ==
    /\ ConstructedFromBoth
    /\ result.entry[1].keyType = EdDSA
    /\ result.entry[1].publicKey = <<<<"text", 1>>>>
    /\ result.entry[1].privateKey = <<<<"text", 2>>>>
    /\ result.error = ErrKeyMismatch

\* ---------------------------------------------------------------- C24
\* The last call verified, with the key that made it, a signature of a message.
SignedAndVerified == result.op = "verify"

\* The verification does not throw, and accepts exactly the signed message.
VerifiesOwnSignature(call, error) ==
    /\ error = NoError
    /\ call.returned = <<call.message = call.signed>>

\* C24: for each of the three key algorithms and every key holding a private
\* key, verify(m, sign(m)) is true for every message m, and verify(m2, sign(m))
\* is false, without throwing, for every message m2 different from m.
C24_VerifyAcceptsOwnSignatureOnly ==
    SignedAndVerified => VerifiesOwnSignature(result.entry[1], result.error)

\* The part the code keeps: a key whose public key is the one derivable from
\* its private key verifies its own signatures and no other message.
C24_MatchingPairVerifies ==
    (SignedAndVerified
       /\ encodePublicKey(result.entry[1].key.underlyingKey)
            = <<DerivablePublicKey(encodePrivateKey(result.entry[1].key.underlyingKey)[1])>>)
      => VerifiesOwnSignature(result.entry[1], result.error)

\* An RSA key constructed from a private key alone signs a message and throws
\* when it verifies the signature.
C24_Witness ==
    /\ SignedAndVerified
    /\ result.entry[1].key.keyType = RSA
    /\ result.entry[1].key.underlyingKey = [verifyingKey |-> NoVerifyingKey, signingKey |-> <<1>>]
    /\ result.entry[1].message = result.entry[1].signed
    /\ result.error = ErrPublicKeyNotSet

\* An RSA key holding the public key of another pair rejects its own signature.
C24_OwnSignatureRejected ==
    /\ SignedAndVerified
    /\ result.entry[1].key.keyType = RSA
    /\ result.entry[1].key.underlyingKey = [verifyingKey |-> 1, signingKey |-> <<2>>]
    /\ result.entry[1].message = result.entry[1].signed
    /\ result.entry[1].returned = <<FALSE>>

\* An Ed25519 key verifies its signature of the message and rejects it for
\* another message.
C24_CurveKeyVerifies ==
    /\ SignedAndVerified
    /\ result.entry[1].key.keyType = EdDSA
    /\ result.entry[1].message # result.entry[1].signed
    /\ result.error = NoError
    /\ result.entry[1].returned = <<FALSE>>

\* ---------------------------------------------------------------- C30
\* The last call asked a key for its entry object.
KeyEntryObjAsked == result.op = "toEntryObj"

PublicKeyFields == {"publicKeyPem", "publicKeyBase58"}

\* The names an entry object of the key has, and the one public-key field
\* among them.
KeyEntryObjNames(key) ==
    {"id", "type", "controller"}
      \cup {IF key.keyType = RSA THEN "publicKeyPem" ELSE "publicKeyBase58"}
      \cup (IF key.priorityRequirement = <<>> THEN {} ELSE {"priorityRequirement"})
      \cup (IF "priority" \in DOMAIN key THEN {"priority"} ELSE {"purpose"})

\* The fields of the entry object apart from the value of the public-key one.
KeyEntryObjLayout(key, obj) ==
    /\ DOMAIN obj = KeyEntryObjNames(key)
    /\ obj.id = <<ExistingDidId, key.alias>>
    /\ obj.type = key.keyType
    /\ obj.controller = key.controller
    /\ key.priorityRequirement # <<>> => obj.priorityRequirement = key.priorityRequirement[1]
    /\ "priority" \in DOMAIN key => obj.priority = key.priority
    /\ "purpose" \in DOMAIN key => obj.purpose = key.purpose

\* The public-key field holds the public key of the key.
HoldsThePublicKey(key, obj) ==
    \A name \in PublicKeyFields \cap DOMAIN obj :
        /\ obj[name] # NoVerifyingKey
        /\ <<<<"text", obj[name]>>>> = encodePublicKey(key.underlyingKey)

\* Only the entry schema version, given or by default, has an entry object.
OnlyTheEntrySchemaVersion(call, error) ==
    IF call.version \in {<<>>, <<"1.0.0">>}
    THEN error = NoError /\ call.entryObj # <<>>
    ELSE error = "Unknown schema version: " \o call.version[1] /\ call.entryObj = <<>>

\* C30: for every key, toEntryObj(didId) has id = didId#alias, type = keyType,
\* controller, exactly one public-key field (publicKeyPem for RSA,
\* publicKeyBase58 for Ed25519 and ECDSA) holding the encoded public key and
\* never the private key, priorityRequirement exactly when defined, plus
\* priority for management keys and purpose for DID keys; any schema version
\* other than 1.0.0 fails with the unknown-schema-version error.
C30_KeyEntryObject ==
    KeyEntryObjAsked =>
        /\ OnlyTheEntrySchemaVersion(result.entry[1], result.error)
        /\ result.error = NoError =>
              /\ KeyEntryObjLayout(result.entry[1].key, result.entry[1].entryObj[1])
              /\ HoldsThePublicKey(result.entry[1].key, result.entry[1].entryObj[1])

\* The part the code keeps: the layout of the entry object and the refusal of
\* other versions for every key, and the public key in it for every key that
\* holds one.
C30_LayoutAndVersion ==
    KeyEntryObjAsked =>
        /\ OnlyTheEntrySchemaVersion(result.entry[1], result.error)
        /\ result.error = NoError =>
              /\ KeyEntryObjLayout(result.entry[1].key, result.entry[1].entryObj[1])
              /\ result.entry[1].key.underlyingKey.verifyingKey # NoVerifyingKey =>
                    HoldsThePublicKey(result.entry[1].key, result.entry[1].entryObj[1])

\* The entry object of an RSA management key constructed from a private key
\* alone: its publicKeyPem is undefined.
C30_Witness ==
    /\ KeyEntryObjAsked
    /\ result.error = NoError
    /\ result.entry[1].key.keyType = RSA
    /\ "priority" \in DOMAIN result.entry[1].key
    /\ result.entry[1].key.underlyingKey.signingKey # <<>>
    /\ result.entry[1].entryObj[1].publicKeyPem = NoVerifyingKey

\* The entry object of an ECDSA DID key with a priority requirement.
C30_CurveKeyEntryObject ==
    /\ KeyEntryObjAsked
    /\ result.error = NoError
    /\ result.entry[1].key.keyType = ECDSA
    /\ DOMAIN result.entry[1].entryObj[1]
         = {"id", "type", "controller", "publicKeyBase58", "priorityRequirement", "purpose"}
    /\ result.entry[1].entryObj[1].publicKeyBase58 = 2

\* A version other than the entry schema version is refused.
C30_VersionRefused ==
    /\ KeyEntryObjAsked
    /\ result.entry[1].version = <<"1.0.1">>
    /\ result.error = "Unknown schema version: 1.0.1"

\* ---------------------------------------------------------------- C29
\* The last call asked a service for its entry object and got one.
ServiceEntryObjMade == result.op = "Service.toEntryObj" /\ result.error = NoError

\* The fixed fields of the entry object are those of the service.
FixedFieldsOfService(made, obj) ==
    /\ obj.id = <<ExistingDidId, made.alias>>
    /\ obj.type = made.serviceType
    /\ obj.serviceEndpoint = made.endpoint
    /\ ("priorityRequirement" \in DOMAIN obj) <=> (made.priorityRequirement # <<>>)

ReservedServiceFields == {"id", "type", "serviceEndpoint", "priorityRequirement"}

CustomFieldNames(made) ==
    IF made.customFields = <<>> THEN {} ELSE DOMAIN made.customFields[1]

\* C29: for every service, toEntryObj(didId) has id equal to didId#alias, type
\* equal to serviceType and serviceEndpoint equal to endpoint, whatever keys the
\* service's customFields contain; priorityRequirement is present exactly when
\* it was given.
C29_FixedFieldsWhateverTheCustomFields ==
    ServiceEntryObjMade =>
        FixedFieldsOfService(result.entry[1].service, result.entry[1].entryObj[1])

\* The part the code keeps: the fixed fields are those of the service when no
\* custom field bears the name of one of them.
C29_FixedFieldsWithoutCollision ==
    (ServiceEntryObjMade
       /\ CustomFieldNames(result.entry[1].service) \cap ReservedServiceFields = {})
      => FixedFieldsOfService(result.entry[1].service, result.entry[1].entryObj[1])

\* A custom field named id replaces the id of the service in its entry object.
C29_Witness ==
    /\ ServiceEntryObjMade
    /\ "id" \in CustomFieldNames(result.entry[1].service)
    /\ result.entry[1].entryObj[1].id = result.entry[1].service.customFields[1].id
    /\ result.entry[1].entryObj[1].id # <<ExistingDidId, "s1">>

\* A custom field named priorityRequirement is in the entry object of a service
\* constructed without a priority requirement.
C29_PriorityRequirementNotGiven ==
    /\ ServiceEntryObjMade
    /\ result.entry[1].service.priorityRequirement = <<>>
    /\ "priorityRequirement" \in DOMAIN result.entry[1].entryObj[1]

\* -------------------------------------------- DID keys of any purpose given
\* The session of a builder whose callers give didKey() and the DIDKey
\* constructor a purpose argument of any form: a single value, a list, or a
\* value that is neither a string nor an array.
ErrInvalidPurposeType == "Invalid purpose type."

PurposeArguments ==
    {[single |-> PublicKey], [single |-> AuthenticationKey], [single |-> "signingKey"],
     [list |-> <<>>], [list |-> <<PublicKey>>], [list |-> <<AuthenticationKey>>],
     [list |-> <<PublicKey, AuthenticationKey>>],
     [list |-> <<AuthenticationKey, PublicKey>>],
     [list |-> <<PublicKey, PublicKey>>],
     [list |-> <<PublicKey, "signingKey">>],
     [list |-> <<PublicKey, AuthenticationKey, "signingKey">>],
     [other |-> 1]}

\* The list the DIDKey constructor makes of its purpose argument.
PurposeList(purpose) ==
    IF "list" \in DOMAIN purpose THEN purpose.list
    ELSE IF "single" \in DOMAIN purpose THEN <<purpose.single>>
    ELSE <<>>

\* The error new DIDKey(alias, purpose, ...) throws for a purpose argument of
\* any form: the checks of the arguments shared by all keys come first, then
\* the type of the purpose, then its elements.
DIDKeyOfPurposeError(alias, purpose, keyType, controller, priorityRequirement) ==
    IF validateInputParams(alias, keyType, controller, priorityRequirement) = NoError
         /\ "other" \in DOMAIN purpose
    THEN ErrInvalidPurposeType
    ELSE DIDKeyError(alias, PurposeList(purpose), keyType, controller, priorityRequirement)

PurposeInit == NewBuilder /\ NothingBuiltYet(NoError)

\* new DIDKey('k1', purpose, keyType, controller) by a caller, before the
\* builder is given a key.
newDIDKeyOfPurpose(purpose) ==
    LET error == DIDKeyOfPurposeError("k1", purpose, EdDSA, ExistingDidId, <<>>)
        key == DIDKey("k1", PurposeList(purpose), EdDSA, ExistingDidId, <<>>,
                      generateNewKeyPair(FreshKeyMaterial))
    IN /\ KeyCount = 0
       /\ result' = Returned("new DIDKey", error,
                             [purpose |-> purpose,
                              key |-> IF error = NoError THEN <<key>> ELSE <<>>])
       /\ LibraryFrame

\* DIDBuilder.didKey(alias, purpose) with a purpose argument of any form.
didKeyOfPurpose(alias, purpose, profile) ==
    LET controller == IF profile.controller = <<>> THEN id ELSE profile.controller[1]
    IN IF DIDKeyOfPurposeError(alias, purpose, profile.keyType, controller,
                               profile.priorityRequirement) = ErrInvalidPurposeType
       THEN /\ result' = Result("didKey", ErrInvalidPurposeType, alias, <<>>)
            /\ UNCHANGED <<builderVars, did, aliased, updater, deactivator, upgrader>>
       ELSE didKey(alias, PurposeList(purpose), profile)

PurposeManagementKey ==
    /\ managementKeys.items = <<>>
    /\ managementKey("k2", 0, DefaultKeyProfile)
    /\ UNCHANGED calls

PurposeDidKey(alias, purpose) ==
    /\ updater = <<>>
    /\ didKeyOfPurpose(alias, purpose, DefaultKeyProfile)
    /\ UNCHANGED calls

PurposeUpdate == updater = <<>> /\ update /\ UNCHANGED calls

PurposeAddDIDKey(alias, purpose) ==
    /\ updater # <<>>
    /\ didKeyOfPurpose(alias, purpose, DefaultKeyProfile)
    /\ UNCHANGED calls

PurposeRevokeDIDKeyPurpose(alias, purpose) ==
    revokeDIDKeyPurpose(alias, purpose) /\ UNCHANGED calls

PurposeNext ==
    \/ \E purpose \in PurposeArguments : newDIDKeyOfPurpose(purpose)
    \/ PurposeManagementKey
    \/ \E alias \in NewKeyAliases, purpose \in PurposeArguments : PurposeDidKey(alias, purpose)
    \/ PurposeUpdate
    \/ \E alias \in NewKeyAliases, purpose \in PurposeArguments : PurposeAddDIDKey(alias, purpose)
    \/ \E alias \in KeyAliases, purpose \in RevokePurposeInputs :
          PurposeRevokeDIDKeyPurpose(alias, purpose)

PurposeSpec == PurposeInit /\ [][PurposeNext]_vars

\* ---------------------------------------------------------------- C27
\* One or two distinct purposes, each publicKey or authenticationKey.
OneOrTwoValidPurposes(purposes) ==
    \/ purposes \in {<<PublicKey>>, <<AuthenticationKey>>}
    \/ purposes \in {<<PublicKey, AuthenticationKey>>, <<AuthenticationKey, PublicKey>>}

\* The purpose arguments that are a single valid value or a list of one or two
\* distinct valid values.
AcceptablePurposeArguments ==
    {[single |-> PublicKey], [single |-> AuthenticationKey]}
      \cup {[list |-> <<PublicKey>>], [list |-> <<AuthenticationKey>>],
            [list |-> <<PublicKey, AuthenticationKey>>],
            [list |-> <<AuthenticationKey, PublicKey>>]}

AllPurposesValid(keys) == \A i \in 1..Len(keys) : OneOrTwoValidPurposes(keys[i].purpose)

\* C27: DIDKey construction succeeds only when the purpose, given as a single
\* value or a list, has one or two elements, no repeated element, and only the
\* values publicKey and authenticationKey; consequently every DID key in any
\* reachable builder state or updater didKeys view holds one or two distinct
\* valid purposes.
C27_OneOrTwoDistinctValidPurposes ==
    /\ (result.op = "new DIDKey" /\ result.error = NoError) =>
          /\ result.entry[1].purpose \in AcceptablePurposeArguments
          /\ OneOrTwoValidPurposes(result.entry[1].key[1].purpose)
    /\ AllPurposesValid(didKeys.items)
    /\ updater # <<>> => AllPurposesValid(updaterDidKeys)

\* The updater's view holds a key with the one purpose left of its two, next
\* to a key given with a single value, after a call with a repeated purpose
\* was refused.
C27_Witness ==
    /\ updater # <<>>
    /\ Len(didKeys.items) = 2
    /\ \E i \in 1..2 : /\ Len(didKeys.items[i].purpose) = 2
                       /\ Len(updaterDidKeys[i].purpose) = 1
    /\ result.op = "didKey"
    /\ result.error = ErrPurposeShape

\* The constructor refuses a purpose that is neither a string nor an array.
C27_PurposeOfAnotherTypeRefused ==
    /\ result.op = "new DIDKey"
    /\ result.entry[1].purpose = [other |-> 1]
    /\ result.error = ErrInvalidPurposeType

\* The constructor refuses a list of three purposes, whatever they are.
C27_ThreePurposesRefused ==
    /\ result.op = "new DIDKey"
    /\ "list" \in DOMAIN result.entry[1].purpose
    /\ Len(PurposeList(result.entry[1].purpose)) = 3
    /\ result.error = ErrPurposeShape

\* ---------------------------------------------------------------- C31
\* Two lists hold the same members, each as many times, in whatever order.
SameMembers(a, b) ==
    /\ Len(a) = Len(b)
    /\ \A e \in Range(a) \cup Range(b) :
          Cardinality({i \in 1..Len(a) : a[i] = e}) = Cardinality({i \in 1..Len(b) : b[i] = e})

\* C31: the three original collections snapshotted when a DIDUpdater is created
\* keep the same members with the same field values and key material for the
\* updater's whole lifetime, whatever add, revoke, rotate, purpose-revoke and
\* export operations are performed on the updater afterwards.
C31_SnapshotKeepsItsMembers ==
    [][(updater # <<>> /\ ~(result'.op = "update" /\ result'.error = NoError)) =>
          /\ updater' # <<>>
          /\ SameMembers(updater[1].originalManagementKeys, updater'[1].originalManagementKeys)
          /\ SameMembers(updater[1].originalDIDKeys, updater'[1].originalDIDKeys)
          /\ SameMembers(updater[1].originalServices, updater'[1].originalServices)]_vars

\* An update exported after a rotation: the snapshot still holds the key with
\* the key pair it had, while the builder holds its rotated clone.
C31_Witness ==
    /\ result.op = "DIDUpdater.exportEntryData"
    /\ result.error = NoError
    /\ \E i \in 1..Len(updater[1].originalManagementKeys) :
       \E j \in 1..Len(managementKeys.items) :
          /\ updater[1].originalManagementKeys[i].alias = managementKeys.items[j].alias
          /\ updater[1].originalManagementKeys[i].underlyingKey
               # managementKeys.items[j].underlyingKey
          /\ updater[1].originalManagementKeys[i] = StoredSigner

\* ------------------------------------------ the updater of a stored DID
\* The session of a builder made by DID.builder(didId, managementKeys, didKeys,
\* services) from the stored objects of a DID, on which update() is called
\* first and the updater's operations afterwards, revokeDIDKeyPurpose with
\* purposes that are no DIDKeyPurpose value among them.
UpdaterLists ==
    {[managementKeys |-> <<StoredSigner>>, didKeys |-> <<StoredDIDKey>>,
      services |-> <<StoredService>>],
     [managementKeys |-> <<StoredSigner>>, didKeys |-> <<StoredPublicDIDKey>>,
      services |-> <<>>],
     [managementKeys |-> <<StoredSecond, StoredSigner>>, didKeys |-> <<>>, services |-> <<>>]}

UpdaterNewAliases == {"k3"}
UpdaterPurposes == {PublicKey, AuthenticationKey, "signingKey"}
UpdaterServiceProfile ==
    [alias |-> "s2", serviceType |-> "EmailService", endpoint |-> HttpsEndpoint,
     priorityRequirement |-> <<>>, customFields |-> <<>>]

UpdaterInit == \E lists \in UpdaterLists : builder(lists)

UpdaterCall ==
    /\ calls < MaxUpdaterCalls
    /\ calls' = calls + 1

UpdaterNext ==
    \/ updater = <<>> /\ UpdaterCall /\ update
    \/ \E alias \in UpdaterNewAliases :
          UpdaterCall /\ WithinMaxKeys(alias, 0, DefaultKeyProfile)
            /\ addManagementKey(alias, 0, DefaultKeyProfile)
    \/ \E alias \in UpdaterNewAliases :
          UpdaterCall /\ addDIDKey(alias, <<PublicKey, AuthenticationKey>>, DefaultKeyProfile)
    \/ UpdaterCall /\ addService(UpdaterServiceProfile.alias, UpdaterServiceProfile.serviceType,
                                 UpdaterServiceProfile.endpoint,
                                 UpdaterServiceProfile.priorityRequirement,
                                 UpdaterServiceProfile.customFields)
    \/ \E alias \in KeyAliases : UpdaterCall /\ revokeManagementKey(alias)
    \/ \E alias \in KeyAliases : UpdaterCall /\ revokeDIDKey(alias)
    \/ \E alias \in KeyAliases, purpose \in UpdaterPurposes :
          UpdaterCall /\ revokeDIDKeyPurpose(alias, purpose)
    \/ \E alias \in ServiceAliases : UpdaterCall /\ revokeService(alias)
    \/ \E alias \in KeyAliases : UpdaterCall /\ rotateManagementKey(alias)
    \/ \E alias \in KeyAliases : UpdaterCall /\ rotateDIDKey(alias)
    \/ UpdaterCall /\ UpdaterExportEntryData

UpdaterSpec == UpdaterInit /\ [][UpdaterNext]_vars

\* ---------------------------------------------------------------- C32
\* The aliases of the members of a collection.
AliasesOf(items) == {items[i].alias : i \in 1..Len(items)}

\* The purposes held by the key of the alias, none when no key has it.
PurposesHeld(items, alias) ==
    UNION {Range(items[i].purpose) : i \in {j \in 1..Len(items) : items[j].alias = alias}}

\* The step is a call that names something the builder does not hold: a revoke
\* or a rotation of an alias that is not in its collection, or the revocation
\* of a purpose that the key of the alias does not hold.
NamesNothing ==
    \/ result'.op \in {"revokeManagementKey", "rotateManagementKey"}
         /\ result'.alias \notin AliasesOf(managementKeys.items)
    \/ result'.op \in {"revokeDIDKey", "rotateDIDKey"}
         /\ result'.alias \notin AliasesOf(didKeys.items)
    \/ result'.op = "revokeService" /\ result'.alias \notin AliasesOf(services.items)
    \/ result'.op = "revokeDIDKeyPurpose"
         /\ result'.purpose \notin PurposesHeld(didKeys.items, result'.alias)

\* C32: revokeManagementKey, revokeDIDKey, revokeService, rotateManagementKey
\* and rotateDIDKey called with an alias that is not in the targeted
\* collection, and revokeDIDKeyPurpose called with an unknown alias, an invalid
\* purpose or a purpose the key does not hold, leave all three collections and
\* the pending purpose revocations unchanged and raise no error.
C32_NamingNothingChangesNothing ==
    [][(calls' = calls + 1 /\ NamesNothing) =>
          /\ result'.error = NoError
          /\ managementKeys'.items = managementKeys.items
          /\ didKeys'.items = didKeys.items
          /\ services'.items = services.items
          /\ updater' = updater]_vars

\* A purpose that is no DIDKeyPurpose value was named for a key that holds two
\* purposes, with a purpose revocation of another kind pending.
C32_Witness ==
    /\ result.op = "revokeDIDKeyPurpose"
    /\ result.purpose = "signingKey"
    /\ result.alias \in AliasesOf(didKeys.items)
    /\ result.error = NoError
    /\ updater # <<>>
    /\ updater[1].didKeyPurposesToRevoke = <<[alias |-> result.alias, purpose |-> PublicKey]>>

\* A management key that the builder does not hold was rotated.
C32_AbsentKeyRotated ==
    /\ result.op = "rotateManagementKey"
    /\ result.alias = "k3"
    /\ result.error = NoError
    /\ "k3" \notin AliasesOf(managementKeys.items)
    /\ managementKeys.items = updater[1].originalManagementKeys

\* The purpose a single-purpose key does not hold was named.
C32_PurposeNotHeld ==
    /\ result.op = "revokeDIDKeyPurpose"
    /\ result.purpose = PublicKey
    /\ didKeys.items = <<StoredPublicDIDKey>>
    /\ result.alias = "k2"

\* ---------------------------------------------------------------- claim C33
\* The update entry of the updater is not empty.
HasChanges == ~HasNoChanges(UpdateEntryContent(updater[1]))

\* The current collection of services holds a service of the oversized type
\* that the snapshot does not hold.
AddsOversizedService ==
    \E i \in 1..Len(services.items) :
        /\ services.items[i].serviceType = LongServiceType
        /\ ~IncludesStringified(updater[1].originalServices, services.items[i])

\* C33: DIDUpdater.exportEntryData never rejects an update because of the
\* priority of the signing key: when the change set is not empty and the current
\* management keys hold a key of priority 0, the export returns the entry,
\* whatever the priorities of the signing key and of the keys added or revoked,
\* unless the signing key has no private key or the entry exceeds the size
\* limit, the only two errors the export can then end with.
C33_NoRejectionOnSigningKeyPriority ==
    (/\ result.op = "DIDUpdater.exportEntryData"
     /\ HasPriorityZero(managementKeys.items)
     /\ HasChanges)
    => LET signingKey == FirstOfLeastPriority(updater[1].originalManagementKeys)
       IN /\ result.error \in {NoError, ErrPrivateKeyNotSet, ErrUpdateSizeLimit}
          /\ result.error = ErrPrivateKeyNotSet => signingKey.underlyingKey.signingKey = <<>>
          /\ result.error = ErrUpdateSizeLimit => AddsOversizedService
          /\ result.error = NoError => result.entry # <<>>
          /\ (signingKey.underlyingKey.signingKey # <<>> /\ ~AddsOversizedService)
                => result.error = NoError

\* C33 as stated: whenever the change set is not empty and the current
\* management keys hold a key of priority 0, the export succeeds.
C33_ExportWithChangesSucceeds ==
    (/\ result.op = "DIDUpdater.exportEntryData"
     /\ HasPriorityZero(managementKeys.items)
     /\ HasChanges)
    => (result.error = NoError /\ result.entry # <<>>)

\* An update with changes, made on a builder that holds a management key of
\* priority 0, was refused because the signing key has no private key.
C33_RefusedForMissingPrivateKey ==
    /\ result.op = "DIDUpdater.exportEntryData"
    /\ HasPriorityZero(managementKeys.items)
    /\ HasChanges
    /\ result.error = ErrPrivateKeyNotSet

\* An update signed by a key of priority greater than 0 that adds a management
\* key of priority 0 was exported.
C33_Witness ==
    /\ result.op = "DIDUpdater.exportEntryData"
    /\ result.error = NoError
    /\ result.entry # <<>>
    /\ FirstOfLeastPriority(updater[1].originalManagementKeys).priority > 0
    /\ "add" \in DOMAIN result.entry[1].content
    /\ "managementKey" \in DOMAIN result.entry[1].content.add
    /\ \E i \in 1..Len(result.entry[1].content.add.managementKey) :
          result.entry[1].content.add.managementKey[i].priority = 0
    /\ result.entry[1].extIds[4].signer =
          FirstOfLeastPriority(updater[1].originalManagementKeys).underlyingKey.signingKey[1]

\* ---------------------------------------------------------------- claim C34
\* C34: the entry returned by DIDVersionUpgrader.exportEntryData has the
\* content {didMethodVersion: newVersion} alone and is signed, under its id, by
\* the management key of smallest priority among the keys the builder holds at
\* the time of the export; the export returns it whenever that key has a
\* private key, whatever its priority, and it leaves the builder's specVersion
\* as it was.
C34_UpgradeSignedBySmallestPriorityAtExport ==
    [][result'.op = "DIDVersionUpgrader.exportEntryData"
       => /\ specVersion' = specVersion
          /\ upgrader' = upgrader
          /\ result'.entry # <<>> =>
                LET key == FirstOfLeastPriority(managementKeys.items)
                    content == [didMethodVersion |-> upgrader[1].newSpecVersion]
                IN /\ result'.error = NoError
                   /\ result'.entry[1].content = content
                   /\ result'.entry[1].extIds =
                         <<EntryTypeVersionUpgrade, ENTRY_SCHEMA_V100, <<id, key.alias>>,
                           sign(key, Sha256(<<EntryTypeVersionUpgrade, ENTRY_SCHEMA_V100,
                                              <<id, key.alias>>, content>>))>>
          /\ (/\ managementKeys.items # <<>>
              /\ ErrorOfSort(managementKeys) = NoError
              /\ FirstOfLeastPriority(managementKeys.items).underlyingKey.signingKey # <<>>)
                => (result'.error = NoError /\ result'.entry # <<>>)]_vars

\* An upgrade entry was exported by a builder that holds no management key of
\* priority 0.
C34_Witness ==
    /\ result.op = "DIDVersionUpgrader.exportEntryData"
    /\ result.error = NoError
    /\ result.entry # <<>>
    /\ ~HasPriorityZero(managementKeys.items)
    /\ result.entry[1].content = [didMethodVersion |-> upgrader[1].newSpecVersion]
    /\ specVersion # upgrader[1].newSpecVersion

\* An upgrade entry was signed by a management key that the updater added to
\* the builder, a key of smaller priority than every key of the stored DID.
C34_SignedByKeyAddedLater ==
    /\ result.op = "DIDVersionUpgrader.exportEntryData"
    /\ result.entry # <<>>
    /\ updater # <<>>
    /\ updater[1].originalManagementKeys # <<>>
    /\ \A i \in 1..Len(updater[1].originalManagementKeys) :
          /\ updater[1].originalManagementKeys[i].alias # result.entry[1].extIds[3][2]
          /\ updater[1].originalManagementKeys[i].priority > managementKeys.items[1].priority
    /\ managementKeys.items[1].alias = result.entry[1].extIds[3][2]

\* ---------------------------------------------------------------- claim C35
\* C35: DID.builder(didId) never fails on its id.  Given an id of the grammar
\* did:factom:[mainnet:|testnet:]chainId, the builder has exactly that id, the
\* network the id names, and no nonce.  Given no id, or an id that fails the
\* grammar, the builder has a nonce of 32 bytes and the id generated from it:
\* the chain id of the create tag, the schema version and the nonce, without
\* network segment.
C35_BuilderKeepsValidIdOrGeneratesOne ==
    result.op = "DID.builder" =>
        LET given == result.entry[1].didId
        IN /\ result.error = NoError
           /\ IF given # <<>> /\ given[1].network \in {Unspecified, Mainnet, Testnet}
              THEN /\ id = given[1]
                   /\ nonce = <<>>
                   /\ network = given[1].network
              ELSE /\ nonce # <<>>
                   /\ nonce[1] = GeneratedNonce
                   /\ NonceLength = 32
                   /\ id = MakeId(Unspecified,
                                  calculateChainId(<<EntryTypeCreate, ENTRY_SCHEMA_V100, nonce[1]>>))
                   /\ network = Unspecified
                   /\ given # <<>> => id # given[1]

\* A builder was made of an id that fails the grammar: it has a generated id.
C35_Witness ==
    /\ result.op = "DID.builder"
    /\ result.error = NoError
    /\ result.entry[1].didId = <<MalformedDidId>>
    /\ id # MalformedDidId
    /\ nonce # <<>>

\* A builder was made of an id of the grammar and kept it.
C35_ValidIdKept ==
    /\ result.op = "DID.builder"
    /\ result.entry[1].didId # <<>>
    /\ id = result.entry[1].didId[1]
    /\ id.network = Testnet
    /\ nonce = <<>>

\* ---------------------------------------------------------------- claim C36
\* The errors the constructors of a key or of a service throw on their
\* arguments, before the builder looks at the alias.
ArgumentErrors ==
    {ErrPriority, ErrPriorityRequirement, ErrController, ErrPurposeShape, ErrPurposeValue}

\* C36: the aliases a builder has used only grow, through every call of the
\* builder and of its updater, and they include the alias of every entity the
\* builder holds.  An entity held under a used alias continues an entity that
\* was held under it before the call, so that a revoked alias never comes back;
\* adding a key or a service under a used alias, the alias of a revoked entity
\* included, adds nothing and fails with the duplicate-alias error (or with
\* the error of the constructor when another argument is invalid).
C36_UsedAliasesOnlyGrow ==
    [][/\ usedKeyAliases \subseteq usedKeyAliases'
       /\ usedServiceAliases \subseteq usedServiceAliases'
       /\ AliasesOf(managementKeys'.items) \cup AliasesOf(didKeys'.items) \subseteq usedKeyAliases'
       /\ AliasesOf(services'.items) \subseteq usedServiceAliases'
       /\ (AliasesOf(managementKeys'.items) \cup AliasesOf(didKeys'.items)) \cap usedKeyAliases
             \subseteq AliasesOf(managementKeys.items) \cup AliasesOf(didKeys.items)
       /\ AliasesOf(services'.items) \cap usedServiceAliases \subseteq AliasesOf(services.items)
       /\ (result'.op \in {"managementKey", "didKey"} /\ result'.alias \in usedKeyAliases)
             => /\ result'.error \in {ErrDuplicateAlias} \cup ArgumentErrors
                /\ managementKeys' = managementKeys
                /\ didKeys' = didKeys
       /\ (result'.op = "service" /\ result'.alias \in usedServiceAliases)
             => /\ result'.error \in {ErrDuplicateAlias} \cup ArgumentErrors
                /\ services' = services]_vars

\* The updater was asked to add a key under the alias of a key it had revoked,
\* and the builder refused the alias as a duplicate.
C36_Witness ==
    /\ updater # <<>>
    /\ result.op \in {"managementKey", "didKey"}
    /\ result.error = ErrDuplicateAlias
    /\ result.alias \in AliasesOf(updater[1].originalManagementKeys)
    /\ result.alias \notin AliasesOf(managementKeys.items) \cup AliasesOf(didKeys.items)
    /\ result.alias \in usedKeyAliases

\* The same for a service.
C36_RevokedServiceAliasRefused ==
    /\ updater # <<>>
    /\ result.op = "service"
    /\ result.error = ErrDuplicateAlias
    /\ result.alias \in AliasesOf(updater[1].originalServices)
    /\ result.alias \notin AliasesOf(services.items)

\* ---------------------------------------------------------------- claim C37
\* The aliases named by the ids of a list of an update entry.
AliasesNamed(list) == {list[i].id[2] : i \in 1..Len(list)}

\* The key aliases the builder has used that neither the snapshot nor the
\* builder holds: the keys that were added after the snapshot was taken and
\* revoked since.  The same for the services.
CancelledKeyAliases ==
    usedKeyAliases \ (AliasesOf(updater[1].originalManagementKeys)
                        \cup AliasesOf(updater[1].originalDIDKeys)
                        \cup AliasesOf(managementKeys.items) \cup AliasesOf(didKeys.items))
CancelledServiceAliases ==
    usedServiceAliases \ (AliasesOf(updater[1].originalServices) \cup AliasesOf(services.items))

\* The aliases of the pending purpose revocations.
PendingAliases ==
    {updater[1].didKeyPurposesToRevoke[i].alias : i \in 1..Len(updater[1].didKeyPurposesToRevoke)}

\* No entity differs from the snapshot and no purpose revocation is pending.
NothingElseChanged ==
    /\ SameEntities(updater[1].originalManagementKeys, managementKeys.items)
    /\ SameEntities(updater[1].originalDIDKeys, didKeys.items)
    /\ SameEntities(updater[1].originalServices, services.items)
    /\ updater[1].didKeyPurposesToRevoke = <<>>

\* What the export of an update shows of the entities that were added and
\* revoked: none of them is named in add or in revoke (but by the revocation of
\* a purpose made on the key while it was held), and when nothing else changed
\* the export fails, with the no-changes error when the builder holds a
\* management key of priority 0 and with the no-priority-zero error, which is
\* checked first, when it holds none.
CancelledEntitiesAreNotExported ==
    /\ result.entry # <<>> =>
          \A section \in {"add", "revoke"} :
              LET content == result.entry[1].content
              IN /\ AliasesNamed(EntryList(content, section, "managementKey"))
                       \cap CancelledKeyAliases = {}
                 /\ AliasesNamed(EntryList(content, section, "didKey"))
                       \cap (CancelledKeyAliases \ PendingAliases) = {}
                 /\ AliasesNamed(EntryList(content, section, "service"))
                       \cap CancelledServiceAliases = {}
    /\ (CancelledKeyAliases \cup CancelledServiceAliases # {} /\ NothingElseChanged)
          => /\ result.entry = <<>>
             /\ result.error = IF HasPriorityZero(managementKeys.items)
                               THEN ErrNoChanges ELSE ErrUpdateNoPriorityZero

C37_CancelledWithoutPriorityZero ==
    /\ result.op = "DIDUpdater.exportEntryData"
    /\ result.error = ErrUpdateNoPriorityZero
    /\ CancelledServiceAliases # {}
    /\ NothingElseChanged

\* ---------------------------------------------------------------- claim C38
\* No two elements of the list carry the same id.
EachIdOnce(list) ==
    \A i \in 1..Len(list) : \A j \in 1..Len(list) : list[i].id = list[j].id => i = j

\* C38: in every exported update entry each id occurs at most once in
\* revoke.managementKey, at most once in revoke.didKey and at most once in
\* revoke.service.
C38_EachIdRevokedOnce ==
    (result.op = "DIDUpdater.exportEntryData" /\ result.entry # <<>>) =>
        \A collection \in {"managementKey", "didKey", "service"} :
            EachIdOnce(EntryList(result.entry[1].content, "revoke", collection))

\* The part of C38 that holds: each id occurs once in revoke.managementKey and
\* in revoke.service, once among the elements of revoke.didKey that revoke a
\* whole key and once among those that revoke a purpose.
C38_EachIdOnceButForPendingPurposes ==
    (result.op = "DIDUpdater.exportEntryData" /\ result.entry # <<>>) =>
        LET content == result.entry[1].content
            revoked == EntryList(content, "revoke", "didKey")
            whole(e) == DOMAIN e = {"id"}
            part(e) == DOMAIN e = {"id", "purpose"}
        IN /\ EachIdOnce(EntryList(content, "revoke", "managementKey"))
           /\ EachIdOnce(EntryList(content, "revoke", "service"))
           /\ EachIdOnce(SelectSeq(revoked, whole))
           /\ EachIdOnce(SelectSeq(revoked, part))

\* An exported update entry whose revoke.didKey names the same key twice: once
\* to revoke the key and once to revoke a purpose of it.
C38_Witness ==
    /\ result.op = "DIDUpdater.exportEntryData"
    /\ result.error = NoError
    /\ result.entry # <<>>
    /\ LET revoked == EntryList(result.entry[1].content, "revoke", "didKey")
       IN \E i \in 1..Len(revoked) : \E j \in 1..Len(revoked) :
             /\ i # j
             /\ revoked[i].id = revoked[j].id
             /\ DOMAIN revoked[i] = {"id"}
             /\ DOMAIN revoked[j] = {"id", "purpose"}

\* ---------------------------------------------------------------- claim C39
\* The list holds the members of the other list, each once, in ascending
\* order of priority, the keys of equal priority in the order they had.
SortedFrom(sorted, items) ==
    /\ Len(sorted) = Len(items)
    /\ Range(sorted) = Range(items)
    /\ \A i \in 1..Len(sorted) : \A j \in 1..Len(sorted) :
          i < j =>
             /\ sorted[i].priority <= sorted[j].priority
             /\ sorted[i].priority = sorted[j].priority =>
                   \E m \in 1..Len(items) : \E n \in 1..Len(items) :
                       m < n /\ items[m] = sorted[i] /\ items[n] = sorted[j]

\* C39: DIDBuilder.deactivate(), which constructs the deactivator, and the
\* exports of the deactivator and of the upgrader leave the builder's DID keys,
\* services, used aliases, id, nonce, network and specVersion as they were,
\* and its management keys too but for their order: the array either is left
\* as it was or holds the same keys sorted by ascending priority.
C39_OnlyTheOrderOfManagementKeysChanges ==
    [][result'.op \in {"deactivate", "DIDDeactivator.exportEntryData",
                       "DIDVersionUpgrader.exportEntryData"}
       => /\ UNCHANGED <<id, nonce, network, specVersion, didKeys, services,
                         usedKeyAliases, usedServiceAliases>>
          /\ managementKeys'.frozen = managementKeys.frozen
          /\ \/ managementKeys'.items = managementKeys.items
             \/ SortedFrom(managementKeys'.items, managementKeys.items)
          /\ result'.op = "DIDDeactivator.exportEntryData" => managementKeys' = managementKeys]_vars

\* The deactivator was made of a builder whose stored management keys were not
\* in the order of their priorities: the builder holds them sorted.
C39_Witness ==
    /\ result.op = "deactivate"
    /\ result.error = NoError
    /\ deactivator # <<>>
    /\ managementKeys.items = <<StoredSigner, StoredSecond>>
    /\ usedKeyAliases = {"k1", "k2"}

\* The same after the export of an upgrade entry.
C39_SortedByUpgradeExport ==
    /\ result.op = "DIDVersionUpgrader.exportEntryData"
    /\ result.error = NoError
    /\ managementKeys.items = <<StoredSigner, StoredSecond>>

\* ---------------------------------------------------------------- claim C40
\* The step is an export of the updater that follows another one directly.
SecondExportInARow ==
    /\ result.op = "DIDUpdater.exportEntryData"
    /\ result'.op = "DIDUpdater.exportEntryData"
    /\ calls' = calls + 1

\* C40: DIDUpdater.exportEntryData is repeatable: it changes neither the
\* builder's collections nor the pending purpose revocations, and called twice
\* in a row it ends twice with the same error or returns twice the same entry.
C40_ExportIsRepeatable ==
    [][/\ result'.op = "DIDUpdater.exportEntryData" =>
             /\ UNCHANGED <<managementKeys, didKeys, services>>
             /\ updater'[1].didKeyPurposesToRevoke = updater[1].didKeyPurposesToRevoke
       /\ SecondExportInARow => result' = result]_vars

\* The part of C40 that holds: the export changes neither the builder's
\* collections nor the pending purpose revocations, and called twice in a row
\* it ends twice with the same error or returns two entries signed under the
\* same key id whose contents have the same sections and lists and, in each
\* list, the same elements, the lists other than revoke.managementKey in the
\* same order.
C40_RepeatableUpToTheOrderOfRevokedKeys ==
    [][/\ result'.op = "DIDUpdater.exportEntryData" =>
             /\ UNCHANGED <<managementKeys, didKeys, services>>
             /\ updater'[1].didKeyPurposesToRevoke = updater[1].didKeyPurposesToRevoke
       /\ SecondExportInARow =>
             /\ result'.error = result.error
             /\ (result'.entry = <<>>) <=> (result.entry = <<>>)
             /\ result.entry # <<>> =>
                   LET first == result.entry[1]
                       second == result'.entry[1]
                   IN /\ second.extIds[3] = first.extIds[3]
                      /\ second.extIds[4].signer = first.extIds[4].signer
                      /\ DOMAIN second.content = DOMAIN first.content
                      /\ \A section \in DOMAIN first.content :
                            /\ DOMAIN second.content[section] = DOMAIN first.content[section]
                            /\ \A collection \in DOMAIN first.content[section] :
                                  IF section = "revoke" /\ collection = "managementKey"
                                  THEN /\ Range(second.content[section][collection])
                                            = Range(first.content[section][collection])
                                       /\ Len(second.content[section][collection])
                                            = Len(first.content[section][collection])
                                  ELSE second.content[section][collection]
                                            = first.content[section][collection]]_vars

\* An export has returned an entry that the next export would not return
\* again: the revoked management keys are listed in the order the snapshot had
\* before the export sorted it.
C40_Witness ==
    /\ result.op = "DIDUpdater.exportEntryData"
    /\ result.error = NoError
    /\ UpdaterExportError(updater[1]) = NoError
    /\ result.entry[1] # UpdateEntry(updater[1])
    /\ Len(EntryList(result.entry[1].content, "revoke", "managementKey")) = 2
    /\ EntryList(UpdateEntry(updater[1]).content, "revoke", "managementKey")
          = <<EntryList(result.entry[1].content, "revoke", "managementKey")[2],
              EntryList(result.entry[1].content, "revoke", "managementKey")[1]>>

====
